---- MODULE Spec2Model ----
(***************************************************************************)
(* A model of the authorization broker of full-stack-fastapi-template:     *)
(*   - the device authorization flow of backend/app/utils.py (a Redis      *)
(*     store with per-key expiry, read and written by concurrent request   *)
(*     handlers), and                                                      *)
(*   - the OAuth2 provider engine of fastapi_auth/social_providers/oauth.py *)
(*     (authorize, callback, finalize_link) over the secondary storage and *)
(*     the accounts storage.                                               *)
(* Each flow has its own specification over the shared variables; the      *)
(* variables of the other flow stay at their initial values.               *)
(***************************************************************************)
EXTENDS Integers, Sequences, FiniteSets, TLC

VARIABLES
    \* ---- device flow (backend/app/utils.py) ----
    now,          \* the clock, get_datetime_utc() and Redis's own clock
    redis,        \* the Redis keyspace: live key -> [val, ex], ex the expiry instant
    issued,       \* number of device codes created so far (uuid4 values handed out)
    authz,        \* per worker: the position of its authorize_device_code call
    \* ---- OAuth2 provider engine (fastapi_auth/social_providers/oauth.py) ----
    secondary_storage,  \* context.secondary_storage: key -> stored record
    users,              \* context.accounts_storage: user id -> email
    social_accounts,    \* context.accounts_storage: the SocialAccount records
    nstates,            \* number of state values drawn by secrets.token_hex
    ncodes,             \* number of codes drawn by _generate_code
    nsocial,            \* number of SocialAccount ids drawn by uuid4
    origin,             \* history: the state each minted code was minted for
    finalized,          \* history: the link codes finalize_link has succeeded for
    requested,          \* history: the authorize request each state was drawn for
    logins,             \* history: for each authorization code minted, the upstream
                        \* identity that logged in and the user_id of the grant
    inflight,           \* per worker: a callback or finalize_link between its
                        \* find_social_account and what follows it
    \* ---- pure helpers (fastapi_auth/utils/_pkce.py, backend/app/utils.py) ----
    pkce,               \* a validate_pkce call: its arguments and its outcome
    signed_token,       \* the signed token in circulation, as a client presents it
    token_origin,       \* history: the generate_*_token call that issued it
    verdict             \* the last verify_*_token call: its arguments and its result

devVars == <<now, redis, issued, authz>>

oauthVars == <<secondary_storage, users, social_accounts, nstates, ncodes, nsocial,
               origin, finalized, requested, logins, inflight>>

tokenVars == <<signed_token, token_origin, verdict>>

utilVars == <<pkce, signed_token, token_origin, verdict>>

vars == <<now, redis, issued, authz, secondary_storage, users, social_accounts,
          nstates, ncodes, nsocial, origin, finalized, requested, logins, inflight,
          pkce, signed_token, token_origin, verdict>>

\* Python's None, for values that are strings elsewhere.
None == "<None>"

----------------------------------------------------------------------------
\* Bounds of the device flow.
MaxDevices == 2
MaxTime == 3

\* settings.DEVICE_AUTH_TTL_MINUTES, in clock ticks.
DEVICE_AUTH_TTL == 2

\* The request handlers that may be inside authorize_device_code at once.
Workers == {"w1", "w2"}
DeviceCodes == 1..MaxDevices
AccessTokens == {"tok-1", "tok-2"}
ClientIds == {"cli"}
RequestIps == {"1.2.3.4"}

\* f"auth:device:{device_code}" and f"auth:user-code:{user_code}"
DeviceKey(device_code) == <<"auth:device", device_code>>
UserCodeKey(user_code) == <<"auth:user-code", user_code>>

\* Python's None where a record is expected (a record with no field of a real one).
NoData == [none |-> TRUE]

\* Python's None where a device code (a positive number here) is expected.
NoCode == 0

\* redis.get(key): the value, or `absent` (None) when the key is absent or has expired.
redis_get(store, key, absent) == IF key \in DOMAIN store THEN store[key].val ELSE absent

\* redis.set(key, value, ex=ttl): (re)creates the key with a fresh time to live.
redis_set(store, key, value, ttl, t) ==
    [k \in DOMAIN store \cup {key} |->
        IF k = key THEN [val |-> value, ex |-> t + ttl] ELSE store[k]]

\* Redis drops a key once its time to live has elapsed.
redis_expire(store, t) ==
    [k \in {x \in DOMAIN store : store[x].ex > t} |-> store[k]]

\* create_and_store_device_code changed to give the user-code mapping a longer
\* time to live than the record.
create_and_store_device_code_mapping_longer(store, user_code, device_code, client_id, request_ip, t) ==
    LET data == [device_code  |-> device_code,
                 client_id    |-> client_id,
                 created_at   |-> t,
                 expires_at   |-> t + DEVICE_AUTH_TTL,
                 request_ip   |-> request_ip,
                 status       |-> "pending",
                 access_token |-> None]
        s1 == redis_set(store, DeviceKey(device_code), data, DEVICE_AUTH_TTL, t)
    IN  redis_set(s1, UserCodeKey(user_code), device_code, DEVICE_AUTH_TTL + 1, t)

\* create_and_store_device_code changed to store both keys without ex=: they
\* never expire (their expiry instant is beyond every clock value here).
create_and_store_device_code_without_expiry(store, user_code, device_code, client_id, request_ip, t) ==
    LET data == [device_code  |-> device_code,
                 client_id    |-> client_id,
                 created_at   |-> t,
                 expires_at   |-> t + DEVICE_AUTH_TTL,
                 request_ip   |-> request_ip,
                 status       |-> "pending",
                 access_token |-> None]
        s1 == redis_set(store, DeviceKey(device_code), data, 1000, t)
    IN  redis_set(s1, UserCodeKey(user_code), device_code, 1000, t)

\* create_and_store_device_code: a pending record and the user-code mapping,
\* written by one MULTI/EXEC pipeline with the same time to live.
create_and_store_device_code_under_one_user_code(store, user_code, device_code, client_id, request_ip, t) ==
    LET data == [device_code  |-> device_code,
                 client_id    |-> client_id,
                 created_at   |-> t,
                 expires_at   |-> t + DEVICE_AUTH_TTL,
                 request_ip   |-> request_ip,
                 status       |-> "pending",
                 access_token |-> None]
    IN  redis_set(redis_set(store, DeviceKey(device_code), data, DEVICE_AUTH_TTL, t),
                  UserCodeKey(1), device_code, DEVICE_AUTH_TTL, t)

create_and_store_device_code(store, user_code, device_code, client_id, request_ip, t) ==
    LET data == [device_code  |-> device_code,
                 client_id    |-> client_id,
                 created_at   |-> t,
                 expires_at   |-> t + DEVICE_AUTH_TTL,
                 request_ip   |-> request_ip,
                 status       |-> "pending",
                 access_token |-> None]
        s1 == redis_set(store, DeviceKey(device_code), data, DEVICE_AUTH_TTL, t)
    IN  redis_set(s1, UserCodeKey(user_code), device_code, DEVICE_AUTH_TTL, t)

\* get_device_authorization_data: the stored record, or None.
get_device_authorization_data(store, device_code) ==
    redis_get(store, DeviceKey(device_code), NoData)

\* get_device_authorization_data_by_user_code: resolve the mapping, then delegate.
get_device_authorization_data_by_user_code(store, user_code) ==
    LET device_code == redis_get(store, UserCodeKey(user_code), NoCode)
    IN  IF device_code # NoCode
        THEN get_device_authorization_data(store, device_code)
        ELSE NoData

\* authorize_device_code changed to set the status and leave access_token as
\* it was.
authorized_data_forgetting_ip(data, access_token) ==
    [data EXCEPT !.status = "authorized", !.access_token = access_token,
                 !.request_ip = None]

authorized_data_without_token(data, access_token) ==
    [data EXCEPT !.status = "authorized"]

\* authorize_device_code, lines 392-393: the record as it is written back.
authorized_data(data, access_token) ==
    [data EXCEPT !.status = "authorized", !.access_token = access_token]

\* authorize_device_code changed to write an authorized record for a device
\* code it finds no record of.
authorize_device_code_upserting(store, device_code, access_token, t) ==
    LET data == get_device_authorization_data(store, device_code)
        fresh == [device_code  |-> device_code,
                  client_id    |-> None,
                  created_at   |-> t,
                  expires_at   |-> t + DEVICE_AUTH_TTL,
                  request_ip   |-> None,
                  status       |-> "pending",
                  access_token |-> None]
    IN  [raised |-> None,
         store  |-> redis_set(store, DeviceKey(device_code),
                              authorized_data(IF data = NoData THEN fresh ELSE data,
                                              access_token),
                              DEVICE_AUTH_TTL, t)]

\* authorize_device_code as one uninterrupted call: the exception it raises
\* (None when it returns) and Redis as it leaves it.
authorize_device_code(store, device_code, access_token, t) ==
    LET data == get_device_authorization_data(store, device_code)
    IN  IF data = NoData
        THEN [raised |-> "ValueError: Device code not found", store |-> store]
        ELSE [raised |-> None,
              store  |-> redis_set(store, DeviceKey(device_code),
                                   authorized_data(data, access_token),
                                   DEVICE_AUTH_TTL, t)]

\* A worker that is not inside authorize_device_code. `result` is how its last
\* call ended: None (no call yet), "ok" (returned) or "not_found" (ValueError).
IdleCall == [pc |-> "idle", device_code |-> NoCode, access_token |-> None,
             data |-> NoData, result |-> None]

\* The device flow starts with an empty Redis and no call in progress.
InitDevice ==
    /\ now = 0
    /\ redis = << >>
    /\ issued = 0
    /\ authz = [w \in Workers |-> IdleCall]

----------------------------------------------------------------------------
\* The OAuth2 provider engine: values.

\* Bounds of the OAuth2 flows.
MaxStates == 2
MaxCodes == 2
MaxSocial == 2
MaxOAuthTime == 2

\* A URL as its parts; the path is the sequence of its segments ("" is << >>,
\* "/" is <<"">>, "/callback" is <<"callback">>).
Url(scheme, host, path) == [scheme |-> scheme, host |-> host, path |-> path]

\* A query parameter that is absent (None), and one that is the empty string.
NoneUrl == Url(None, None, << >>)
EmptyUrl == Url("", "", << >>)

\* The redirect_uri values a client may send: absent, empty, relative, and
\* absolute ones that differ in scheme, host (and its case) and path.
RedirectUris ==
    {NoneUrl, EmptyUrl, Url("", "valid-frontend.com", <<"callback">>)} \cup
    {Url(s, h, p) : s \in {"http", "HTTP", "ftp"},
                    h \in {"valid-frontend.com", "Valid-Frontend.com", "malicious.com"},
                    p \in {<< >>, <<"callback">>}}

\* Python's truthiness of a string-valued parameter: None and "" are falsy.
Falsy(x) == x = None \/ x = ""
FalsyUrl(u) == u = NoneUrl \/ u = EmptyUrl

\* str.lower() on the scheme and host names used here.
Lower(x) ==
    CASE x = "HTTP" -> "http"
      [] x = "Valid-Frontend.com" -> "valid-frontend.com"
      [] OTHER -> x

\* TypeAdapter(HttpUrl).validate_python(u) succeeds: an absolute http(s) URL.
HttpUrlValid(u) == Lower(u.scheme) \in {"http", "https"} /\ ~Falsy(u.host)

\* str(TypeAdapter(HttpUrl).validate_python(u)): the URL as pydantic writes it,
\* scheme and host in lower case and an empty path as "/".
HttpUrlStr(u) ==
    Url(Lower(u.scheme), Lower(u.host), IF u.path = << >> THEN <<"">> ELSE u.path)

\* Context(trusted_origins=["valid-frontend.com"]) and context.is_valid_redirect_uri.
TrustedOrigins == {"valid-frontend.com"}
is_valid_redirect_uri(u) == u.host \in TrustedOrigins

\* calculate_s256_challenge on the verifiers used here (SHA-256, base64url, no
\* padding).  The verifiers are ASCII strings, on which encode("ascii") is total.
Verifiers == {"test", "wrong"}
calculate_s256_challenge(verifier) ==
    CASE verifier = "test" -> "n4bQgYhMfWWaL-qgxVrQFaO_TxsrC4Is0V1sFbDwCgg"
      [] verifier = "wrong" -> "iBCtWB5Z8rw5KLJhcHpxMI9-E56wSCA2bcTVwY2YAiU"
      [] verifier = "" -> "47DEQpj8HBSa-_TImW-5JCeuQeRkm5NMpJWZG3hSuFU"
      [] verifier = "another-verifier" -> "ioUtroeXJeFk4m9JCRbj550sEciRBF4Rj3vONdfv63Y"
      [] OTHER -> "sha256-of-other"

\* The provider instance: DiscordProvider(client_id, client_secret).
ProviderId == "discord"
AuthorizationEndpoint == Url("https", "discord.com", <<"oauth2", "authorize">>)
ClientId == "test_client_id"
supports_pkce == TRUE

\* The URL the requests arrive at, and relative_url(url, path).
AuthorizeUrl == Url("http", "localhost:8000", <<"discord", "authorize">>)
CallbackUrl == Url("http", "localhost:8000", <<"discord", "callback">>)
relative_url(url, path) ==
    [url EXCEPT !.path = SubSeq(@, 1, Len(@) - 1) \o <<path>>]

\* The query of an authorize request.
AuthorizeRequest(redirect_uri, response_type, code_challenge, code_challenge_method, login_hint, state) ==
    [redirect_uri          |-> redirect_uri,
     response_type         |-> response_type,
     code_challenge        |-> code_challenge,
     code_challenge_method |-> code_challenge_method,
     login_hint            |-> login_hint,
     state                 |-> state]

\* The authorize requests sent when authorize is studied on its own: every
\* combination of the parameters it checks, and two that carry the optional ones.
AuthorizeRequests ==
    {AuthorizeRequest(u, rt, cc, m, None, None) :
        u \in RedirectUris,
        rt \in {None, "code", "link_code", "token"},
        cc \in {None, "", calculate_s256_challenge("test")},
        m \in {None, "S256", "plain"}}
    \cup
    {AuthorizeRequest(Url("http", "valid-frontend.com", <<"callback">>), rt,
                      calculate_s256_challenge("test"), "S256", "hint", "test_state") :
        rt \in {"code", "link_code", "token"}}

\* The authorize requests sent when whole flows are studied.
FlowAuthorizeRequests ==
    {AuthorizeRequest(u, rt, calculate_s256_challenge("test"), "S256", None, None) :
        u \in {Url("http", "valid-frontend.com", <<"callback">>),
               Url("HTTP", "Valid-Frontend.com", << >>),
               Url("http", "malicious.com", <<"callback">>)},
        rt \in {None, "code", "link_code"}}

\* Response (fastapi_auth/utils/_response.py). No Location header:
NoLocation == [none |-> TRUE]

\* Response.error(error, error_description=None, status_code=400): a JSON body.
Response_error(error, error_description, status_code) ==
    [status_code |-> status_code,
     location    |-> NoLocation,
     body        |-> [error |-> error, error_description |-> error_description]]

\* Response.error_redirect(uri, error=, error_description=): 302 to uri.
Response_error_redirect(uri, error, error_description) ==
    [status_code |-> 302,
     location    |-> [url |-> uri,
                      query_params |-> [error |-> error,
                                        error_description |-> error_description]],
     body        |-> [none |-> TRUE]]

\* Response.redirect(uri, query_params=): 302 to uri.
Response_redirect(uri, query_params) ==
    [status_code |-> 302,
     location    |-> [url |-> uri, query_params |-> query_params],
     body        |-> [none |-> TRUE]]

\* Keys of the secondary storage.
AuthorizationRequestKey(state) == <<"oauth:authorization_request", state>>
CodeKey(code) == <<"oauth:code", code>>
LinkRequestKey(code) == <<"oauth:link_request", code>>

\* secondary_storage.set(key, value) and .get(key) (None as NoData).
storage_set(storage, key, value) ==
    [k \in DOMAIN storage \cup {key} |-> IF k = key THEN value ELSE storage[k]]
storage_get(storage, key) == IF key \in DOMAIN storage THEN storage[key] ELSE NoData

\* build_authorization_params
build_authorization_params(state, proxy_redirect_uri, response_type, code_challenge, code_challenge_method, login_hint) ==
    [client_id             |-> ClientId,
     redirect_uri          |-> proxy_redirect_uri,
     state                 |-> state,
     response_type         |-> response_type,
     code_challenge        |-> IF supports_pkce THEN code_challenge ELSE None,
     code_challenge_method |-> IF supports_pkce THEN code_challenge_method ELSE None,
     login_hint            |-> IF Falsy(login_hint) THEN None ELSE login_hint]

----------------------------------------------------------------------------
\* authorize with one of its steps changed, to measure what the properties of
\* authorize below depend on. `bug` names the change:
\*   "no_allowlist":     the trusted-origin check is skipped;
\*   "redirect_untrusted": an untrusted redirect_uri gets the error as a redirect;
\*   "bare_challenge":   a missing code_challenge is answered with a bare error;
\*   "store_first":      the record is written before the PKCE parameters are checked;
\*   "constant_state":   the state is a constant instead of a fresh random value.
authorize_changed(request, storage, fresh, bug) ==
    LET raw == request.redirect_uri
        redirect_uri == HttpUrlStr(raw)
        state == IF bug = "constant_state" THEN 1 ELSE fresh
        data == [redirect_uri          |-> redirect_uri,
                 login_hint            |-> request.login_hint,
                 client_state          |-> request.state,
                 state                 |-> state,
                 code_challenge        |-> request.code_challenge,
                 code_challenge_method |-> request.code_challenge_method,
                 link                  |-> request.response_type = "link_code"]
        written == storage_set(storage, AuthorizationRequestKey(state), data)
        kept == IF bug = "store_first" THEN written ELSE storage
        bare(error) == [response |-> Response_error(error, None, 400),
                        storage  |-> storage]
        redirected(description, store) ==
            [response |-> Response_error_redirect(redirect_uri, "invalid_request",
                                                  description),
             storage  |-> store]
    IN  IF FalsyUrl(raw) THEN bare("invalid_request")
        ELSE IF ~HttpUrlValid(raw) THEN bare("invalid_redirect_uri")
        ELSE IF bug # "no_allowlist" /\ ~is_valid_redirect_uri(redirect_uri)
            THEN IF bug = "redirect_untrusted"
                 THEN redirected("Invalid redirect URI", storage)
                 ELSE bare("invalid_redirect_uri")
        ELSE IF Falsy(request.response_type)
            THEN redirected("No response type provided", storage)
        ELSE IF request.response_type \notin {"code", "link_code"}
            THEN redirected("Unsupported response type", storage)
        ELSE IF Falsy(request.code_challenge)
            THEN IF bug = "bare_challenge"
                 THEN bare("invalid_request")
                 ELSE redirected("No code challenge provided", kept)
        ELSE IF request.code_challenge_method # "S256"
            THEN redirected("Unsupported code challenge method", kept)
        ELSE [response |-> Response_redirect(
                  AuthorizationEndpoint,
                  build_authorization_params(
                      state, relative_url(AuthorizeUrl, "callback"), "code",
                      request.code_challenge, request.code_challenge_method,
                      request.login_hint)),
              storage  |-> written]

authorize_without_allowlist(request, storage, state) ==
    authorize_changed(request, storage, state, "no_allowlist")
authorize_redirecting_untrusted(request, storage, state) ==
    authorize_changed(request, storage, state, "redirect_untrusted")
authorize_bare_on_missing_challenge(request, storage, state) ==
    authorize_changed(request, storage, state, "bare_challenge")
authorize_storing_first(request, storage, state) ==
    authorize_changed(request, storage, state, "store_first")
authorize_with_constant_state(request, storage, state) ==
    authorize_changed(request, storage, state, "constant_state")

\* OAuth2Provider.authorize(request, context), with `state` the value that
\* secrets.token_hex(16) returns when it is reached. The result is the response
\* and the secondary storage as the call leaves it.
authorize(request, storage, state) ==
    LET raw == request.redirect_uri
        redirect_uri == HttpUrlStr(raw)
        bare(error) == [response |-> Response_error(error, None, 400),
                        storage  |-> storage]
        redirected(description) ==
            [response |-> Response_error_redirect(redirect_uri, "invalid_request",
                                                  description),
             storage  |-> storage]
        data == [redirect_uri          |-> redirect_uri,
                 login_hint            |-> request.login_hint,
                 client_state          |-> request.state,
                 state                 |-> state,
                 code_challenge        |-> request.code_challenge,
                 code_challenge_method |-> request.code_challenge_method,
                 link                  |-> request.response_type = "link_code"]
    IN  IF FalsyUrl(raw) THEN bare("invalid_request")
        ELSE IF ~HttpUrlValid(raw) THEN bare("invalid_redirect_uri")
        ELSE IF ~is_valid_redirect_uri(redirect_uri) THEN bare("invalid_redirect_uri")
        ELSE IF Falsy(request.response_type)
            THEN redirected("No response type provided")
        ELSE IF request.response_type \notin {"code", "link_code"}
            THEN redirected("Unsupported response type")
        ELSE IF Falsy(request.code_challenge)
            THEN redirected("No code challenge provided")
        ELSE IF request.code_challenge_method # "S256"
            THEN redirected("Unsupported code challenge method")
        ELSE [response |-> Response_redirect(
                  AuthorizationEndpoint,
                  build_authorization_params(
                      state, relative_url(AuthorizeUrl, "callback"), "code",
                      request.code_challenge, request.code_challenge_method,
                      request.login_hint)),
              storage  |-> storage_set(storage, AuthorizationRequestKey(state), data)]

----------------------------------------------------------------------------
\* The upstream provider, as the engine sees it: what the token endpoint and
\* the user-info endpoint answer to one exchange.
\*   token: "none" (request error, non-2xx, unparseable body), "error" (an
\*          error-shaped body) or "ok"; token_response: the token fields of an
\*          "ok" answer; info_raises: fetch_user_info raises; email, id: the
\*          user info ("" when the field is missing or empty).
UpstreamReply(token, token_response, info_raises, email, id) ==
    [token |-> token, token_response |-> token_response,
     info_raises |-> info_raises, info_object |-> TRUE, email |-> email, id |-> id]

\* The user-info endpoint answers with JSON that is not an object (null, a
\* list, a string): response.json() returns it as it is.
NotAnObject(reply) == [reply EXCEPT !.info_object = FALSE]

TokenResponses == {"tokens-1", "tokens-2"}
Emails == {"test@example.com", "a@example.com", "not-allowed@example.com"}
ProviderUserIds == {"p1", "p2"}

UpstreamReplies ==
    {UpstreamReply("none", None, FALSE, "a@example.com", "p1"),
     UpstreamReply("error", None, FALSE, "a@example.com", "p1"),
     UpstreamReply("ok", "tokens-1", TRUE, "a@example.com", "p1"),
     UpstreamReply("ok", "tokens-1", FALSE, "", "p1"),
     UpstreamReply("ok", "tokens-1", FALSE, "a@example.com", ""),
     NotAnObject(UpstreamReply("ok", "tokens-1", FALSE, "", ""))}
    \cup {UpstreamReply("ok", tr, FALSE, e, i) :
            tr \in TokenResponses, e \in Emails, i \in ProviderUserIds}

\* _fetch_user_info (with _exchange_code and fetch_user_info): the user info and
\* token response, or the exception it raises: the OAuth2Exception its callers
\* catch, or the AttributeError of user_info.get (line 506) on user info that
\* is not an object, which they do not.
OAuth2Exception(error_description) ==
    [raised |-> TRUE, caught |-> TRUE,
     error |-> "server_error", error_description |-> error_description]
AttributeError ==
    [raised |-> TRUE, caught |-> FALSE, error |-> None, error_description |-> None]

fetch_user_info(upstream) ==
    IF upstream.token # "ok" THEN OAuth2Exception("Token exchange failed")
    ELSE IF upstream.info_raises THEN OAuth2Exception("Failed to fetch user info")
    ELSE IF ~upstream.info_object THEN AttributeError
    ELSE IF Falsy(upstream.email) THEN OAuth2Exception("No email found in user info")
    ELSE IF Falsy(upstream.id)
        THEN OAuth2Exception("No provider user ID found in user info")
    ELSE [raised |-> FALSE,
          user_info |-> [email |-> upstream.email, id |-> upstream.id],
          token_response |-> upstream.token_response]

----------------------------------------------------------------------------
\* The accounts storage (MemoryAccountsStorage of tests/conftest.py).

\* Python's None where a user id, or a SocialAccount, is expected.
NoUser == None
NoAccount == [none |-> TRUE]

\* MemoryAccountsStorage.__init__: the one user "test".
InitialUsers == [id \in {"test"} |-> "test@example.com"]

find_user_by_email(usrs, email) ==
    IF \E id \in DOMAIN usrs : usrs[id] = email
    THEN CHOOSE id \in DOMAIN usrs : usrs[id] = email
    ELSE NoUser

find_user_by_id(usrs, id) == IF id \in DOMAIN usrs THEN id ELSE NoUser

\* find_social_account: the first matching account, going through the users in
\* the order they were added ("test" first; an identity's other accounts all
\* belong to the one user a login created for it) and through each user's
\* accounts in the order they were appended.
find_social_account(social, provider, provider_user_id) ==
    LET matches == {a \in social : /\ a.provider = provider
                                   /\ a.provider_user_id = provider_user_id}
        first(a, b) == IF (a.user_id = "test") # (b.user_id = "test")
                       THEN a.user_id = "test"
                       ELSE a.id <= b.id
    IN  IF matches = {} THEN NoAccount
        ELSE CHOOSE a \in matches : \A b \in matches : first(a, b)

\* create_user: "ok" with the users it leaves, or the exception it raises:
\* ValueError for a known email, FastAPIAuthException for an email not invited.
create_user(usrs, user_info) ==
    IF find_user_by_email(usrs, user_info.email) # NoUser
        THEN [outcome |-> "ValueError", users |-> usrs]
    ELSE IF user_info.email = "not-allowed@example.com"
        THEN [outcome |-> "FastAPIAuthException", users |-> usrs,
              error |-> "email_not_invited",
              error_description |->
                  "This email has not yet been invited to join FastAPI Cloud"]
    ELSE [outcome |-> "ok",
          users   |-> [id \in DOMAIN usrs \cup {user_info.id} |->
                          IF id = user_info.id THEN user_info.email ELSE usrs[id]]]

\* create_social_account: appends a SocialAccount with a fresh id; it does not
\* look for an account of the same provider and provider_user_id.
create_social_account(social, id, user_id, provider, provider_user_id, token_response) ==
    social \cup {[id               |-> id,
                  user_id          |-> user_id,
                  provider         |-> provider,
                  provider_user_id |-> provider_user_id,
                  token_response   |-> token_response]}

\* update_social_account: replaces the token fields of the account with that id.
update_social_account(social, social_account_id, token_response) ==
    {IF a.id = social_account_id
     THEN [a EXCEPT !.token_response = token_response] ELSE a : a \in social}

----------------------------------------------------------------------------
\* OAuth2Provider.callback and _link_flow.

\* timedelta(minutes=10), the lifetime of a code or link code, in clock ticks.
CodeLifetime == 1

\* The query of a callback request: state (0 when absent) and the provider's code.
ProviderCodes == {"pc-1", "pc-2"}
CallbackRequests ==
    {[state |-> st, code |-> c] : st \in 0..MaxStates, c \in {None} \cup ProviderCodes}

\* What a handler leaves behind: its response, the two stores, whether it sent a
\* token request upstream, and whether it drew a code or a SocialAccount id.
Outcome(response, storage, usrs, social, exchanged, minted, created) ==
    [response |-> response, storage |-> storage, users |-> usrs,
     social_accounts |-> social, exchanged |-> exchanged,
     minted |-> minted, created |-> created]

\* An exception no handler catches: the framework answers 500.
Unhandled == [status_code |-> 500, location |-> NoLocation, body |-> [none |-> TRUE]]

\* model_validate_json of a stored OAuth2AuthorizationRequestData succeeds.
ValidAuthorizationRequestData(data) ==
    /\ DOMAIN data = {"redirect_uri", "login_hint", "client_state", "state",
                      "code_challenge", "code_challenge_method", "link"}
    /\ data.code_challenge_method = "S256"

\* _link_flow changed to store the link code without the provider's code.
link_flow_dropping_provider_code(provider_data, provider_code, storage, usrs, social, code, t) ==
    LET data == [expires_at            |-> t + CodeLifetime,
                 client_id             |-> ClientId,
                 redirect_uri          |-> provider_data.redirect_uri,
                 code_challenge        |-> provider_data.code_challenge,
                 code_challenge_method |-> provider_data.code_challenge_method,
                 provider_code         |-> None]
    IN  Outcome(Response_redirect(provider_data.redirect_uri, [link_code |-> code]),
                storage_set(storage, LinkRequestKey(code), data),
                usrs, social, FALSE, TRUE, FALSE)

\* _link_flow: store a link code carrying the provider's code, redirect with it.
link_flow_minting_code(provider_data, provider_code, storage, usrs, social, code, t) ==
    LET data == [expires_at            |-> t + CodeLifetime,
                 client_id             |-> ClientId,
                 redirect_uri          |-> provider_data.redirect_uri,
                 code_challenge        |-> provider_data.code_challenge,
                 code_challenge_method |-> provider_data.code_challenge_method,
                 provider_code         |-> provider_code]
    IN  Outcome(Response_redirect(provider_data.redirect_uri, [code |-> code]),
                storage_set(storage, CodeKey(code), data),
                usrs, social, FALSE, TRUE, FALSE)

link_flow(provider_data, provider_code, storage, usrs, social, code, t) ==
    LET data == [expires_at            |-> t + CodeLifetime,
                 client_id             |-> ClientId,
                 redirect_uri          |-> provider_data.redirect_uri,
                 code_challenge        |-> provider_data.code_challenge,
                 code_challenge_method |-> provider_data.code_challenge_method,
                 provider_code         |-> provider_code]
    IN  Outcome(Response_redirect(provider_data.redirect_uri, [link_code |-> code]),
                storage_set(storage, LinkRequestKey(code), data),
                usrs, social, FALSE, TRUE, FALSE)

\* callback, lines 308-327: mint an authorization code for the resolved user.
issue_code_dropping_challenge(provider_data, user_id, storage, usrs, social, code, t, created) ==
    LET data == [user_id               |-> user_id,
                 expires_at            |-> t + CodeLifetime,
                 client_id             |-> ClientId,
                 redirect_uri          |-> provider_data.redirect_uri,
                 code_challenge        |-> None,
                 code_challenge_method |-> provider_data.code_challenge_method]
    IN  Outcome(Response_redirect(provider_data.redirect_uri, [code |-> code]),
                storage_set(storage, CodeKey(code), data),
                usrs, social, TRUE, TRUE, created)

issue_code(provider_data, user_id, storage, usrs, social, code, t, created) ==
    LET data == [user_id               |-> user_id,
                 expires_at            |-> t + CodeLifetime,
                 client_id             |-> ClientId,
                 redirect_uri          |-> provider_data.redirect_uri,
                 code_challenge        |-> provider_data.code_challenge,
                 code_challenge_method |-> provider_data.code_challenge_method]
    IN  Outcome(Response_redirect(provider_data.redirect_uri, [code |-> code]),
                storage_set(storage, CodeKey(code), data),
                usrs, social, TRUE, TRUE, created)

\* callback's creation step changed to report a rejection by create_user as the
\* generic server_error.
callback_create_hiding_rejection(provider_data, fetched, storage, usrs, social, code, social_id, t) ==
    LET user_info == fetched.user_info
        made == create_user(usrs, user_info)
    IN  IF made.outcome = "FastAPIAuthException"
        THEN Outcome(Response_error_redirect(
                         provider_data.redirect_uri, "server_error",
                         "Failed to create user"),
                     storage, usrs, social, TRUE, FALSE, FALSE)
        ELSE IF made.outcome = "ValueError"
        THEN Outcome(Unhandled, storage, usrs, social, TRUE, FALSE, FALSE)
        ELSE issue_code(provider_data, user_info.id, storage, made.users,
                        create_social_account(
                            social, social_id, user_info.id, ProviderId,
                            user_info.id, fetched.token_response),
                        code, t, TRUE)

\* callback, lines 287-327: no SocialAccount and no user with the email were
\* found; create the user and its SocialAccount and mint the code.
callback_create(provider_data, fetched, storage, usrs, social, code, social_id, t) ==
    LET user_info == fetched.user_info
        made == create_user(usrs, user_info)
    IN  IF made.outcome = "FastAPIAuthException"
        THEN Outcome(Response_error_redirect(
                         provider_data.redirect_uri, made.error,
                         made.error_description),
                     storage, usrs, social, TRUE, FALSE, FALSE)
        ELSE IF made.outcome = "ValueError"
        THEN Outcome(Unhandled, storage, usrs, social, TRUE, FALSE, FALSE)
        ELSE issue_code(provider_data, user_info.id, storage, made.users,
                        create_social_account(
                            social, social_id, user_info.id, ProviderId,
                            user_info.id, fetched.token_response),
                        code, t, TRUE)

\* callback's account resolution changed to merge by email: when the email is
\* that of an existing user, the new SocialAccount is given to that user.
callback_resolve_merging_by_email(found, provider_data, fetched, storage, usrs, social, code, social_id, t) ==
    LET user_info == fetched.user_info
        by_email == find_user_by_email(usrs, user_info.email)
    IN  IF found # NoAccount
        THEN LET updated == update_social_account(social, found.id,
                                                  fetched.token_response)
                 user == find_user_by_id(usrs, found.user_id)
             IN  IF user = NoUser
                 THEN Outcome(Unhandled, storage, usrs, updated, TRUE, FALSE, FALSE)
                 ELSE issue_code(provider_data, user, storage, usrs, updated,
                                 code, t, FALSE)
        ELSE IF by_email # NoUser
        THEN issue_code(provider_data, by_email, storage, usrs,
                        create_social_account(social, social_id, by_email, ProviderId,
                                              user_info.id, fetched.token_response),
                        code, t, TRUE)
        ELSE callback_create(provider_data, fetched, storage, usrs, social,
                             code, social_id, t)

\* callback's account resolution changed to sign in by email: with a
\* SocialAccount found, the user is the one with the upstream's email when there
\* is one, instead of the owner of the SocialAccount.
callback_resolve_signing_in_by_email(found, provider_data, fetched, storage, usrs, social, code, social_id, t) ==
    LET user_info == fetched.user_info
        by_email == find_user_by_email(usrs, user_info.email)
    IN  IF found # NoAccount
        THEN LET updated == update_social_account(social, found.id,
                                                  fetched.token_response)
                 owner == find_user_by_id(usrs, found.user_id)
                 user == IF by_email # NoUser THEN by_email ELSE owner
             IN  IF user = NoUser
                 THEN Outcome(Unhandled, storage, usrs, updated, TRUE, FALSE, FALSE)
                 ELSE issue_code(provider_data, user, storage, usrs, updated,
                                 code, t, FALSE)
        ELSE IF by_email # NoUser
        THEN Outcome(Response_error_redirect(
                         provider_data.redirect_uri, "account_exists",
                         "An account with this email already exists."),
                     storage, usrs, social, TRUE, FALSE, FALSE)
        ELSE callback_create(provider_data, fetched, storage, usrs, social,
                             code, social_id, t)

\* callback, lines 265-306, with `found` what find_social_account returned.
callback_resolve(found, provider_data, fetched, storage, usrs, social, code, social_id, t) ==
    LET redirect_uri == provider_data.redirect_uri
        user_info == fetched.user_info
        failed(error, description) ==
            Outcome(Response_error_redirect(redirect_uri, error, description),
                    storage, usrs, social, TRUE, FALSE, FALSE)
    IN  IF found # NoAccount
        THEN LET updated == update_social_account(social, found.id,
                                                  fetched.token_response)
                 user == find_user_by_id(usrs, found.user_id)
             IN  IF user = NoUser
                 THEN Outcome(Unhandled, storage, usrs, updated, TRUE, FALSE, FALSE)
                 ELSE issue_code(provider_data, user, storage, usrs, updated,
                                 code, t, FALSE)
        ELSE IF find_user_by_email(usrs, user_info.email) # NoUser
        THEN failed("account_exists", "An account with this email already exists.")
        ELSE callback_create(provider_data, fetched, storage, usrs, social,
                             code, social_id, t)

\* callback reaches _fetch_user_info: the state is known, the provider sent a
\* code and the request is no link request.
callback_exchanges(request, storage) ==
    LET provider_data == storage_get(storage, AuthorizationRequestKey(request.state))
    IN  /\ request.state # 0
        /\ provider_data # NoData
        /\ ValidAuthorizationRequestData(provider_data)
        /\ ~Falsy(request.code)
        /\ ~provider_data.link

\* callback reaches its find_social_account call: the exchange worked.
callback_reaches_find(request, upstream, storage) ==
    /\ callback_exchanges(request, storage)
    /\ ~fetch_user_info(upstream).raised

\* callback with its answer to a malformed stored record changed: it sends the
\* error to the redirect_uri found in the record instead of answering it bare.
callback_redirecting_malformed(found, request, upstream, storage, usrs, social, code, social_id, t) ==
    LET state == request.state
        provider_data == storage_get(storage, AuthorizationRequestKey(state))
        fetched == fetch_user_info(upstream)
        bare(description) ==
            Outcome(Response_error("server_error", description, 400),
                    storage, usrs, social, FALSE, FALSE, FALSE)
        redirected(error, description, exchanged) ==
            Outcome(Response_error_redirect(provider_data.redirect_uri, error,
                                            description),
                    storage, usrs, social, exchanged, FALSE, FALSE)
    IN  IF state = 0 THEN bare("No state found in request")
        ELSE IF provider_data = NoData THEN bare("Provider data not found")
        ELSE IF ~ValidAuthorizationRequestData(provider_data)
            THEN redirected("server_error", "Invalid provider data", FALSE)
        ELSE IF Falsy(request.code)
            THEN redirected("server_error",
                            "No authorization code received in callback", FALSE)
        ELSE IF provider_data.link
            THEN link_flow(provider_data, request.code, storage, usrs, social, code, t)
        ELSE IF fetched.raised /\ ~fetched.caught
            THEN Outcome(Unhandled, storage, usrs, social, TRUE, FALSE, FALSE)
        ELSE IF fetched.raised
            THEN redirected(fetched.error, fetched.error_description, TRUE)
        ELSE callback_resolve(found, provider_data, fetched, storage, usrs, social,
                              code, social_id, t)

\* callback, with `found` standing for the result of its find_social_account
\* call, `code` for the value _generate_code returns and `social_id` for the id
\* create_social_account draws.
callback_with(found, request, upstream, storage, usrs, social, code, social_id, t) ==
    LET state == request.state
        provider_data == storage_get(storage, AuthorizationRequestKey(state))
        fetched == fetch_user_info(upstream)
        bare(description) ==
            Outcome(Response_error("server_error", description, 400),
                    storage, usrs, social, FALSE, FALSE, FALSE)
    IN  IF state = 0 THEN bare("No state found in request")
        ELSE IF provider_data = NoData THEN bare("Provider data not found")
        ELSE IF ~ValidAuthorizationRequestData(provider_data)
            THEN bare("Invalid provider data")
        ELSE IF Falsy(request.code)
            THEN Outcome(Response_error_redirect(
                             provider_data.redirect_uri, "server_error",
                             "No authorization code received in callback"),
                         storage, usrs, social, FALSE, FALSE, FALSE)
        ELSE IF provider_data.link
            THEN link_flow(provider_data, request.code, storage, usrs, social, code, t)
        ELSE IF fetched.raised /\ ~fetched.caught
            THEN Outcome(Unhandled, storage, usrs, social, TRUE, FALSE, FALSE)
        ELSE IF fetched.raised
            THEN Outcome(Response_error_redirect(
                             provider_data.redirect_uri, fetched.error,
                             fetched.error_description),
                         storage, usrs, social, TRUE, FALSE, FALSE)
        ELSE callback_resolve(found, provider_data, fetched, storage, usrs, social,
                              code, social_id, t)

\* callback as one step: find_social_account reads the accounts as they are.
callback(request, upstream, storage, usrs, social, code, social_id, t) ==
    callback_with(find_social_account(social, ProviderId, upstream.id),
                  request, upstream, storage, usrs, social, code, social_id, t)

----------------------------------------------------------------------------
\* validate_pkce (fastapi_auth/utils/_pkce.py): ValueError for a method other
\* than S256, else whether the verifier's challenge is the stored one.
validate_pkce_without_comparison(stored_challenge, stored_method, received_verifier) ==
    IF stored_method # "S256"
    THEN [raised |-> TRUE, value |-> FALSE]
    ELSE [raised |-> FALSE, value |-> TRUE]

validate_pkce_accepting_plain(stored_challenge, stored_method, received_verifier) ==
    IF stored_method \notin {"S256", "plain"}
    THEN [raised |-> TRUE, value |-> FALSE]
    ELSE [raised |-> FALSE,
          value  |-> IF stored_method = "plain"
                     THEN received_verifier = stored_challenge
                     ELSE calculate_s256_challenge(received_verifier) = stored_challenge]

validate_pkce(stored_challenge, stored_method, received_verifier) ==
    IF stored_method # "S256"
    THEN [raised |-> TRUE, value |-> FALSE]
    ELSE [raised |-> FALSE,
          value  |-> calculate_s256_challenge(received_verifier) = stored_challenge]

\* context.get_user_from_request (tests/conftest.py): the logged-in user "test"
\* for "Bearer test", else None.
get_user_from_request(request) ==
    IF request.authorization = "Bearer test"
    THEN find_user_by_email(InitialUsers, "test@example.com")
    ELSE NoUser

\* A finalize-link request: the Authorization header and the JSON body
\* (link_code 0 when absent).
FinalizeRequests ==
    {[authorization |-> a, link_code |-> c, code_verifier |-> v] :
        a \in {None, "Bearer test"}, c \in 0..MaxCodes, v \in {None} \cup Verifiers}

\* model_validate_json of a stored OAuth2LinkCodeData succeeds.
ValidLinkCodeData(data) ==
    /\ DOMAIN data = {"expires_at", "client_id", "redirect_uri", "code_challenge",
                      "code_challenge_method", "provider_code"}
    /\ data.code_challenge_method = "S256"

\* finalize_link changed to ask for the caller only after the link code has
\* been read and looked up.
finalize_link_rejection_after_lookup(request, storage, t) ==
    LET data == storage_get(storage, LinkRequestKey(request.link_code))
    IN  IF request.link_code = 0 THEN "No link code found in request"
        ELSE IF data = NoData THEN "No link data found in secondary storage"
        ELSE IF ~ValidLinkCodeData(data) THEN "Invalid link data"
        ELSE IF get_user_from_request(request) = NoUser THEN "Not logged in"
        ELSE IF data.expires_at < t THEN "Link code has expired"
        ELSE IF Falsy(request.code_verifier) THEN "No code_verifier provided"
        ELSE IF ~validate_pkce(data.code_challenge, data.code_challenge_method,
                               request.code_verifier).value
            THEN "Invalid code challenge"
        ELSE None

\* finalize_link changed to accept any code_verifier that is present.
finalize_link_rejection_trusting_verifier(request, storage, t) ==
    LET data == storage_get(storage, LinkRequestKey(request.link_code))
    IN  IF get_user_from_request(request) = NoUser THEN "Not logged in"
        ELSE IF request.link_code = 0 THEN "No link code found in request"
        ELSE IF data = NoData THEN "No link data found in secondary storage"
        ELSE IF ~ValidLinkCodeData(data) THEN "Invalid link data"
        ELSE IF data.expires_at < t THEN "Link code has expired"
        ELSE IF data.code_challenge_method # "S256"
            THEN "Unsupported code challenge method"
        ELSE IF Falsy(request.code_verifier) THEN "No code_verifier provided"
        ELSE None

\* finalize_link, lines 541-611: the error the checks before the exchange end
\* in, or None when they all pass.
finalize_link_rejection(request, storage, t) ==
    LET data == storage_get(storage, LinkRequestKey(request.link_code))
    IN  IF get_user_from_request(request) = NoUser THEN "Not logged in"
        ELSE IF request.link_code = 0 THEN "No link code found in request"
        ELSE IF data = NoData THEN "No link data found in secondary storage"
        ELSE IF ~ValidLinkCodeData(data) THEN "Invalid link data"
        ELSE IF data.expires_at < t THEN "Link code has expired"
        ELSE IF data.code_challenge_method # "S256"
            THEN "Unsupported code challenge method"
        ELSE IF Falsy(request.code_verifier) THEN "No code_verifier provided"
        ELSE IF ~validate_pkce(data.code_challenge, data.code_challenge_method,
                               request.code_verifier).value
            THEN "Invalid code challenge"
        ELSE None

\* finalize_link reaches _fetch_user_info: every check before it passes.
finalize_link_exchanges(request, storage, t) ==
    finalize_link_rejection(request, storage, t) = None

\* finalize_link reaches its find_social_account call: the exchange worked.
finalize_link_reaches_find(request, upstream, storage, t) ==
    /\ finalize_link_exchanges(request, storage, t)
    /\ ~fetch_user_info(upstream).raised

\* finalize_link changed to hand a found account of another user over to the
\* caller instead of refusing.
finalize_link_with_taking_over(found, request, upstream, storage, usrs, social, social_id, t) ==
    LET user == get_user_from_request(request)
        rejection == finalize_link_rejection(request, storage, t)
        fetched == fetch_user_info(upstream)
        bare(error, description, status, exchanged) ==
            Outcome(Response_error(error, description, status),
                    storage, usrs, social, exchanged, FALSE, FALSE)
        done(accounts, created) ==
            Outcome([status_code |-> 200, location |-> NoLocation,
                     body |-> [message |-> "Link finalized"]],
                    storage, usrs, accounts, TRUE, FALSE, created)
    IN  IF rejection = "Not logged in" THEN bare("unauthorized", rejection, 401, FALSE)
        ELSE IF rejection # None THEN bare("server_error", rejection, 400, FALSE)
        ELSE IF fetched.raised /\ ~fetched.caught
            THEN Outcome(Unhandled, storage, usrs, social, TRUE, FALSE, FALSE)
        ELSE IF fetched.raised
            THEN bare(fetched.error, fetched.error_description, 400, TRUE)
        ELSE IF found # NoAccount
            THEN done({IF a.id = found.id
                       THEN [a EXCEPT !.user_id = user,
                                      !.token_response = fetched.token_response]
                       ELSE a : a \in social}, FALSE)
        ELSE done(create_social_account(social, social_id, user, ProviderId,
                                        fetched.user_info.id, fetched.token_response),
                  TRUE)

\* finalize_link, with `found` standing for the result of its
\* find_social_account call, `social_id` for the id create_social_account draws
\* and t for the time of the expiry check.
finalize_link_with(found, request, upstream, storage, usrs, social, social_id, t) ==
    LET user == get_user_from_request(request)
        rejection == finalize_link_rejection(request, storage, t)
        fetched == fetch_user_info(upstream)
        bare(error, description, status, exchanged) ==
            Outcome(Response_error(error, description, status),
                    storage, usrs, social, exchanged, FALSE, FALSE)
        done(accounts, created) ==
            Outcome([status_code |-> 200, location |-> NoLocation,
                     body |-> [message |-> "Link finalized"]],
                    storage, usrs, accounts, TRUE, FALSE, created)
    IN  IF rejection = "Not logged in" THEN bare("unauthorized", rejection, 401, FALSE)
        ELSE IF rejection # None THEN bare("server_error", rejection, 400, FALSE)
        ELSE IF fetched.raised /\ ~fetched.caught
            THEN Outcome(Unhandled, storage, usrs, social, TRUE, FALSE, FALSE)
        ELSE IF fetched.raised
            THEN bare(fetched.error, fetched.error_description, 400, TRUE)
        ELSE IF found # NoAccount
            THEN IF found.user_id # user
                 THEN bare("server_error", "Social account already exists", 400, TRUE)
                 ELSE done(update_social_account(social, found.id,
                                                 fetched.token_response), FALSE)
        ELSE done(create_social_account(social, social_id, user, ProviderId,
                                        fetched.user_info.id, fetched.token_response),
                  TRUE)

\* finalize_link as one step.
finalize_link(request, upstream, storage, usrs, social, social_id, t) ==
    finalize_link_with(find_social_account(social, ProviderId, upstream.id),
                       request, upstream, storage, usrs, social, social_id, t)

----------------------------------------------------------------------------
\* The OAuth2 flows as state machines.

\* A worker that is not between a find_social_account call and what follows.
IdleHandler == [pc |-> "idle", found |-> NoAccount, request |-> NoData,
                upstream |-> NoData, t |-> 0]

InitOAuth ==
    /\ secondary_storage = << >>
    /\ users = InitialUsers
    /\ social_accounts = {}
    /\ nstates = 0
    /\ ncodes = 0
    /\ nsocial = 0
    /\ origin = << >>
    /\ finalized = {}
    /\ requested = << >>
    /\ logins = {}
    /\ inflight = [w \in Workers |-> IdleHandler]

\* No validate_pkce call is being followed.
NoPkceCall == [none |-> TRUE]
\* No token has been issued, and none verified.
NoToken == [none |-> TRUE]
NoVerdict == [none |-> TRUE]
InitUtil ==
    /\ pkce = NoPkceCall
    /\ signed_token = NoToken
    /\ token_origin = NoToken
    /\ verdict = NoVerdict

Init == InitDevice /\ InitOAuth /\ InitUtil

\* A handler's outcome becomes the state: the stores, the values drawn, and the
\* history of the state (`minted_for`) a fresh code was minted for.
Apply(r, minted_for, link_code, finalize_ok) ==
    /\ r.minted => ncodes < MaxCodes
    /\ r.created => nsocial < MaxSocial
    /\ secondary_storage' = r.storage
    /\ users' = r.users
    /\ social_accounts' = r.social_accounts
    /\ ncodes' = IF r.minted THEN ncodes + 1 ELSE ncodes
    /\ nsocial' = IF r.created THEN nsocial + 1 ELSE nsocial
    /\ origin' = IF r.minted
                 THEN [c \in DOMAIN origin \cup {ncodes + 1} |->
                          IF c = ncodes + 1 THEN minted_for ELSE origin[c]]
                 ELSE origin
    /\ finalized' = IF finalize_ok THEN finalized \cup {link_code} ELSE finalized

\* The logins so far, after a handler with outcome r that asked `upstream`: an
\* authorization code (a code minted after an exchange) adds the identity that
\* logged in and the user_id stored with the code.
LoggedIn(r, upstream, code) ==
    IF r.minted /\ r.exchanged
    THEN logins \cup {[provider_user_id |-> upstream.id,
                       user_id |-> storage_get(r.storage, CodeKey(code)).user_id]}
    ELSE logins

\* GET /{provider}/authorize
Authorize(request) ==
    \E r \in {authorize(request, secondary_storage, nstates + 1)} :
        /\ r.storage # secondary_storage => nstates < MaxStates
        /\ secondary_storage' = r.storage
        /\ nstates' = IF r.storage # secondary_storage THEN nstates + 1 ELSE nstates
        /\ requested' = IF r.storage # secondary_storage
                        THEN [st \in DOMAIN requested \cup {nstates + 1} |->
                                 IF st = nstates + 1 THEN request ELSE requested[st]]
                        ELSE requested
        /\ UNCHANGED <<devVars, utilVars, users, social_accounts, ncodes, nsocial, origin,
                       finalized, logins, inflight>>

\* GET /{provider}/callback, as one step.
Callback(request, upstream) ==
    /\ \E r \in {callback(request, upstream, secondary_storage, users,
                          social_accounts, ncodes + 1, nsocial + 1, now)} :
          /\ Apply(r, request.state, 0, FALSE)
          /\ logins' = LoggedIn(r, upstream, ncodes + 1)
    /\ UNCHANGED <<devVars, utilVars, nstates, requested, inflight>>

\* POST /{provider}/finalize-link, as one step.
FinalizeLink(request, upstream) ==
    /\ \E r \in {finalize_link(request, upstream, secondary_storage, users,
                               social_accounts, nsocial + 1, now)} :
          Apply(r, 0, request.link_code, r.response.status_code = 200)
    /\ UNCHANGED <<devVars, utilVars, nstates, requested, logins, inflight>>

\* Time passes for the OAuth2 flows (the secondary storage has no expiry).
TickOAuth ==
    /\ now < MaxOAuthTime
    /\ now' = now + 1
    /\ UNCHANGED <<redis, issued, authz, oauthVars, utilVars>>

\* The upstream answers a handler can get: none is asked for (NoReply) unless
\* the handler reaches _fetch_user_info.
NoReply == UpstreamReply("none", None, FALSE, "", "")
RepliesFor(exchanges) == IF exchanges THEN UpstreamReplies ELSE {NoReply}

\* authorize on its own, over every request.
NextAuthorize ==
    \E request \in AuthorizeRequests : Authorize(request)

SpecAuthorize == Init /\ [][NextAuthorize]_vars

\* Login flows: authorize and callback, each one step.
NextCallback ==
    \/ \E request \in FlowAuthorizeRequests : Authorize(request)
    \/ \E request \in CallbackRequests :
          \E upstream \in RepliesFor(callback_exchanges(request, secondary_storage)) :
             Callback(request, upstream)

SpecCallback == Init /\ [][NextCallback]_vars

\* Whole flows as time passes, each handler one step.
NextOAuth ==
    \/ \E request \in FlowAuthorizeRequests : Authorize(request)
    \/ \E request \in CallbackRequests :
          \E upstream \in RepliesFor(callback_exchanges(request, secondary_storage)) :
             Callback(request, upstream)
    \/ \E request \in FinalizeRequests :
          \E upstream \in RepliesFor(finalize_link_exchanges(
                                         request, secondary_storage, now)) :
             FinalizeLink(request, upstream)
    \/ TickOAuth

SpecOAuth == Init /\ [][NextOAuth]_vars

\* The requests of clients that all present the same upstream identity.
RaceAuthorizeRequests ==
    {AuthorizeRequest(Url("http", "valid-frontend.com", <<"callback">>), rt,
                      calculate_s256_challenge("test"), "S256", None, None) :
        rt \in {"code", "link_code"}}
RaceCallbackRequests == {[state |-> st, code |-> "pc-1"] : st \in 1..MaxStates}
RaceFinalizeRequests ==
    {[authorization |-> "Bearer test", link_code |-> c, code_verifier |-> "test"] :
        c \in 1..MaxCodes}
RaceReplies == {UpstreamReply("ok", "tokens-1", FALSE, "a@example.com", "p1")}

\* Login and link flows of one client (one redirect_uri) as time passes, each
\* handler one step; the upstream fails, or answers for one identity with one
\* of two token responses.
LinkCallbackRequests ==
    {[state |-> st, code |-> c] : st \in 0..MaxStates, c \in {None, "pc-1"}}
LinkReplies ==
    {UpstreamReply("none", None, FALSE, "a@example.com", "p1"),
     UpstreamReply("ok", "tokens-1", FALSE, "a@example.com", "p1"),
     UpstreamReply("ok", "tokens-2", FALSE, "a@example.com", "p1")}
LinkRepliesFor(exchanges) == IF exchanges THEN LinkReplies ELSE {NoReply}

NextLink ==
    \/ \E request \in RaceAuthorizeRequests : Authorize(request)
    \/ \E request \in LinkCallbackRequests :
          \E upstream \in LinkRepliesFor(callback_exchanges(request, secondary_storage)) :
             Callback(request, upstream)
    \/ \E request \in FinalizeRequests :
          \E upstream \in LinkRepliesFor(finalize_link_exchanges(
                                             request, secondary_storage, now)) :
             FinalizeLink(request, upstream)
    \/ TickOAuth

SpecLink == Init /\ [][NextLink]_vars

\* Whole flows with concurrent handlers: a callback or finalize_link that
\* reaches find_social_account is two steps of a worker, the call of
\* find_social_account and what follows it, and other handlers may run between
\* the two. The requests are the Race* ones above.

\* callback, up to and including its find_social_account call.
CallbackFind(w, request, upstream) ==
    /\ inflight[w].pc = "idle"
    /\ callback_reaches_find(request, upstream, secondary_storage)
    /\ inflight' = [inflight EXCEPT ![w] =
           [pc       |-> "callback",
            found    |-> find_social_account(social_accounts, ProviderId, upstream.id),
            request  |-> request,
            upstream |-> upstream,
            t        |-> now]]
    /\ UNCHANGED <<devVars, utilVars, secondary_storage, users, social_accounts, nstates,
                   ncodes, nsocial, origin, finalized, requested, logins>>

\* callback, from the result of find_social_account to its response.
CallbackCommit(w) ==
    /\ inflight[w].pc = "callback"
    /\ \E r \in {callback_with(inflight[w].found, inflight[w].request,
                               inflight[w].upstream, secondary_storage, users,
                               social_accounts, ncodes + 1, nsocial + 1, now)} :
          /\ Apply(r, inflight[w].request.state, 0, FALSE)
          /\ logins' = LoggedIn(r, inflight[w].upstream, ncodes + 1)
    /\ inflight' = [inflight EXCEPT ![w] = IdleHandler]
    /\ UNCHANGED <<devVars, utilVars, nstates, requested>>

\* callback, lines 277-280, after find_social_account found nothing:
\* find_user_by_email finds no user either.
CallbackFindUser(w) ==
    /\ inflight[w].pc = "callback"
    /\ inflight[w].found = NoAccount
    /\ find_user_by_email(users, inflight[w].upstream.email) = NoUser
    /\ inflight' = [inflight EXCEPT ![w].pc = "callback_create"]
    /\ UNCHANGED <<devVars, utilVars, secondary_storage, users, social_accounts, nstates,
                   ncodes, nsocial, origin, finalized, requested, logins>>

\* callback, from create_user to its response.
CallbackCreate(w) ==
    /\ inflight[w].pc = "callback_create"
    /\ \E r \in {callback_create(
                     storage_get(secondary_storage,
                                 AuthorizationRequestKey(inflight[w].request.state)),
                     fetch_user_info(inflight[w].upstream), secondary_storage, users,
                     social_accounts, ncodes + 1, nsocial + 1, now)} :
          /\ Apply(r, inflight[w].request.state, 0, FALSE)
          /\ logins' = LoggedIn(r, inflight[w].upstream, ncodes + 1)
    /\ inflight' = [inflight EXCEPT ![w] = IdleHandler]
    /\ UNCHANGED <<devVars, utilVars, nstates, requested>>

\* callback that ends before find_social_account (an error, or the link flow).
CallbackDirect(request) ==
    /\ ~callback_exchanges(request, secondary_storage)
    /\ Callback(request, NoReply)

\* finalize_link, up to and including its find_social_account call.
FinalizeFind(w, request, upstream) ==
    /\ inflight[w].pc = "idle"
    /\ finalize_link_reaches_find(request, upstream, secondary_storage, now)
    /\ inflight' = [inflight EXCEPT ![w] =
           [pc       |-> "finalize_link",
            found    |-> find_social_account(social_accounts, ProviderId, upstream.id),
            request  |-> request,
            upstream |-> upstream,
            t        |-> now]]
    /\ UNCHANGED <<devVars, utilVars, secondary_storage, users, social_accounts, nstates,
                   ncodes, nsocial, origin, finalized, requested, logins>>

\* finalize_link, from the result of find_social_account to its response.
FinalizeCommit(w) ==
    /\ inflight[w].pc = "finalize_link"
    /\ \E r \in {finalize_link_with(inflight[w].found, inflight[w].request,
                                    inflight[w].upstream, secondary_storage, users,
                                    social_accounts, nsocial + 1, inflight[w].t)} :
          Apply(r, 0, inflight[w].request.link_code, r.response.status_code = 200)
    /\ inflight' = [inflight EXCEPT ![w] = IdleHandler]
    /\ UNCHANGED <<devVars, utilVars, nstates, requested, logins>>

NextOAuthRace ==
    \/ \E request \in RaceAuthorizeRequests : Authorize(request)
    \/ \E request \in RaceCallbackRequests : CallbackDirect(request)
    \/ \E w \in Workers, request \in RaceCallbackRequests, upstream \in RaceReplies :
          CallbackFind(w, request, upstream)
    \/ \E w \in Workers : CallbackCommit(w)
    \/ \E w \in Workers : CallbackFindUser(w)
    \/ \E w \in Workers : CallbackCreate(w)
    \/ \E w \in Workers, request \in RaceFinalizeRequests, upstream \in RaceReplies :
          FinalizeFind(w, request, upstream)
    \/ \E w \in Workers : FinalizeCommit(w)

SpecOAuthRace == Init /\ [][NextOAuthRace]_vars

----------------------------------------------------------------------------
\* The device flow's state machine.


\* begin: generate_user_code() and create_and_store_device_code(); both codes are
\* uuid4 values, modelled as the next unused number.
Begin(client_id, request_ip) ==
    /\ issued < MaxDevices
    /\ issued' = issued + 1
    /\ redis' = create_and_store_device_code(
                    redis, issued + 1, issued + 1, client_id, request_ip, now)
    /\ UNCHANGED <<now, authz, oauthVars, utilVars>>

\* The process dies inside create_and_store_device_code, after the codes were
\* drawn and before or while the pipeline is filled (lines 340-353): the
\* pipeline has sent nothing, so Redis is as it was. Once pipeline.execute()
\* (line 355) has run, both keys are written: that is Begin.
BeginCrash ==
    /\ issued < MaxDevices
    /\ issued' = issued + 1
    /\ UNCHANGED <<now, redis, authz, oauthVars, utilVars>>

\* authorize_device_code, lines 387-390: the read. A missing record raises
\* ValueError("Device code not found") and the call is over.
AuthorizeRead(w, device_code, access_token) ==
    /\ authz[w].pc = "idle"
    /\ device_code <= issued
    /\ LET data == get_device_authorization_data(redis, device_code)
       IN  authz' = [authz EXCEPT ![w] =
                IF data = NoData
                THEN [IdleCall EXCEPT !.result = "not_found"]
                ELSE [pc           |-> "write",
                      device_code  |-> device_code,
                      access_token |-> access_token,
                      data         |-> data,
                      result       |-> None]]
    /\ UNCHANGED <<now, redis, issued, oauthVars, utilVars>>

\* authorize_device_code, lines 392-399: the record read before is written back
\* with status and access_token replaced, under a fresh time to live.
AuthorizeWrite(w) ==
    /\ authz[w].pc = "write"
    /\ redis' = redis_set(redis, DeviceKey(authz[w].device_code),
                          authorized_data(authz[w].data, authz[w].access_token),
                          DEVICE_AUTH_TTL, now)
    /\ authz' = [authz EXCEPT ![w] = [IdleCall EXCEPT !.result = "ok"]]
    /\ UNCHANGED <<now, issued, oauthVars, utilVars>>

\* authorize_device_code by a caller that no other handler interrupts.
AuthorizeDirect(device_code, access_token) ==
    /\ redis' = authorize_device_code(redis, device_code, access_token, now).store
    /\ UNCHANGED <<now, issued, authz, oauthVars, utilVars>>

\* Time passes; Redis drops the keys whose time to live has elapsed.
Tick ==
    /\ now < MaxTime
    /\ now' = now + 1
    /\ redis' = redis_expire(redis, now + 1)
    /\ UNCHANGED <<issued, authz, oauthVars, utilVars>>

NextDevice ==
    \/ \E c \in ClientIds, ip \in RequestIps : Begin(c, ip)
    \/ BeginCrash
    \/ \E w \in Workers, d \in DeviceCodes, t \in AccessTokens : AuthorizeRead(w, d, t)
    \/ \E w \in Workers : AuthorizeWrite(w)
    \/ Tick

SpecDevice == Init /\ [][NextDevice]_vars

\* The device flow for as long as the clock runs: Redis keeps dropping the keys
\* whose time to live has elapsed (Tick is taken whenever it stays possible),
\* and a device code is created only while the clock can still reach the end
\* of its time to live. One authorize_device_code call at a time is followed
\* through its read and its write, with whole calls of others in between.
BeginInTime(client_id, request_ip) ==
    /\ now + DEVICE_AUTH_TTL <= MaxTime
    /\ Begin(client_id, request_ip)

NextDeviceLive ==
    \/ \E c \in ClientIds, ip \in RequestIps : BeginInTime(c, ip)
    \/ BeginCrash
    \/ \E d \in DeviceCodes, t \in AccessTokens : AuthorizeRead("w1", d, t)
    \/ AuthorizeWrite("w1")
    \/ \E d \in DeviceCodes, t \in AccessTokens : AuthorizeDirect(d, t)
    \/ Tick

SpecDeviceLive == Init /\ [][NextDeviceLive]_vars /\ WF_vars(Tick)

\* The device flow with its operations one at a time: no handler runs inside
\* another one's authorize_device_code.
NextDeviceSeq ==
    \/ \E c \in ClientIds, ip \in RequestIps : Begin(c, ip)
    \/ BeginCrash
    \/ \E d \in DeviceCodes, t \in AccessTokens : AuthorizeDirect(d, t)
    \/ Tick

SpecDeviceSeq == Init /\ [][NextDeviceSeq]_vars

----------------------------------------------------------------------------
\* Both flows side by side: device codes are created and authorized (the read
\* and the write of authorize_device_code are separate steps of a worker) while
\* login and link flows are authorized and called back, and time passes.
NextStores ==
    \/ \E c \in ClientIds, ip \in RequestIps : Begin(c, ip)
    \/ \E w \in Workers, d \in DeviceCodes : AuthorizeRead(w, d, "tok-1")
    \/ \E w \in Workers : AuthorizeWrite(w)
    \/ \E request \in RaceAuthorizeRequests : Authorize(request)
    \/ \E request \in RaceCallbackRequests, upstream \in RaceReplies :
          Callback(request, upstream)

SpecStores == Init /\ [][NextStores]_vars

----------------------------------------------------------------------------
\* validate_pkce as a state machine: a call starts with any stored challenge,
\* stored method and received verifier, and returns or raises.
PkceVerifiers == {"test", "wrong", "", "another-verifier"}
PkceChallenges == {calculate_s256_challenge(v) : v \in PkceVerifiers} \cup PkceVerifiers
PkceMethods == {"S256", "plain", "s256", None}
NotReturned == [pending |-> TRUE]

InitPkce ==
    /\ InitDevice
    /\ InitOAuth
    /\ pkce \in [stored_challenge : PkceChallenges, stored_method : PkceMethods,
                 received_verifier : PkceVerifiers, outcome : {NotReturned}]
    /\ signed_token = NoToken
    /\ token_origin = NoToken
    /\ verdict = NoVerdict

ValidatePkce ==
    /\ pkce.outcome = NotReturned
    /\ pkce' = [pkce EXCEPT !.outcome = validate_pkce(pkce.stored_challenge,
                                                      pkce.stored_method,
                                                      pkce.received_verifier)]
    /\ UNCHANGED <<devVars, oauthVars, tokenVars>>

NextPkce == ValidatePkce

SpecPkce == InitPkce /\ [][NextPkce]_vars

----------------------------------------------------------------------------
\* The signed tokens of backend/app/utils.py.  Strings that are cut and joined
\* are sequences of characters; the clock counts hours.
MaxTokenTime == 3
EMAIL_VERIFICATION_TOKEN_EXPIRE_HOURS == 2
EMAIL_RESET_TOKEN_EXPIRE_HOURS == 1
SECRET_KEY == "settings.SECRET_KEY"
OtherKeys == {"another-key"}

\* class TokenType(str, Enum): the values of its members.
TokenType_user == <<"u", "s", "e", "r">>
TokenType_reset == <<"r", "e", "s", "e", "t">>
TokenType_email == <<"e", "m", "a", "i", "l">>
TokenType_update == <<"u", "p", "d", "a", "t", "e">>
TokenKinds == {TokenType_email, TokenType_update, TokenType_reset}

\* The subject payloads: every string of at most two characters over a letter
\* and the separator.
MaxEmailLen == 2
EmailChars == {"a", "-"}
TokenEmails == UNION {[1..n -> EmailChars] : n \in 0..MaxEmailLen}
OldEmails == {<<"b">>, <<"b", "-">>}

\* str.find: the first position of sep in s, 0 when there is none; str.rfind:
\* the last one.
find(s, sep) ==
    IF \E i \in 1..Len(s) : s[i] = sep
    THEN CHOOSE i \in 1..Len(s) : s[i] = sep /\ \A j \in 1..(i - 1) : s[j] # sep
    ELSE 0
rfind(s, sep) ==
    IF \E i \in 1..Len(s) : s[i] = sep
    THEN CHOOSE i \in 1..Len(s) : s[i] = sep /\ \A j \in (i + 1)..Len(s) : s[j] # sep
    ELSE 0

\* s.split(sep, maxsplit=1): s cut at its first sep, or s alone.
rsplit_maxsplit_1(s, sep) ==
    IF rfind(s, sep) = 0
    THEN <<s>>
    ELSE <<SubSeq(s, 1, rfind(s, sep) - 1), SubSeq(s, rfind(s, sep) + 1, Len(s))>>

split_maxsplit_1(s, sep) ==
    IF find(s, sep) = 0
    THEN <<s>>
    ELSE <<SubSeq(s, 1, find(s, sep) - 1), SubSeq(s, find(s, sep) + 1, Len(s))>>

\* jwt.encode(payload, key, algorithm="HS256"): the claims and their HMAC under
\* the key (taken as injective in key and claims).
HS256(key, claims) == [key |-> key, over |-> claims]
jwt_encode(claims, key) == [claims |-> claims, signature |-> HS256(key, claims)]

\* jwt.decode(token, key, algorithms=["HS256"]) at instant t: the claims, or one
\* of the subclasses of InvalidTokenError.
InvalidTokenErrors == {"InvalidSignatureError", "ExpiredSignatureError", "ImmatureSignatureError"}
jwt_decode(tok, key, t) ==
    IF tok.signature # HS256(key, tok.claims)
    THEN [raised |-> "InvalidSignatureError"]
    ELSE IF tok.claims.exp <= t
    THEN [raised |-> "ExpiredSignatureError"]
    ELSE IF tok.claims.nbf > t
    THEN [raised |-> "ImmatureSignatureError"]
    ELSE [raised |-> None, claims |-> tok.claims]

\* What a verify function gives its caller: a value, None, or an exception that
\* its `except InvalidTokenError` does not catch.
Returns(value) == [raised |-> None, value |-> value]
ReturnsNone == [raised |-> None, none |-> TRUE]
Raises(exception) == [raised |-> exception]

generate_verification_email_token(email, t) ==
    jwt_encode([exp |-> t + EMAIL_VERIFICATION_TOKEN_EXPIRE_HOURS, nbf |-> t,
                sub |-> TokenType_email \o <<"-">> \o email], SECRET_KEY)

generate_verification_update_email_token(email, old_email, t) ==
    jwt_encode([exp |-> t + EMAIL_VERIFICATION_TOKEN_EXPIRE_HOURS, nbf |-> t,
                sub |-> TokenType_update \o <<"-">> \o email,
                old_email |-> old_email], SECRET_KEY)

generate_password_reset_token(email, t) ==
    jwt_encode([exp |-> t + EMAIL_RESET_TOKEN_EXPIRE_HOURS, nbf |-> t,
                sub |-> TokenType_reset \o <<"-">> \o email], SECRET_KEY)

verify_email_verification_token_of_any_kind(tok, t) ==
    LET decoded_token == jwt_decode(tok, SECRET_KEY, t)
    IN  IF decoded_token.raised \in InvalidTokenErrors
        THEN ReturnsNone
        ELSE IF "sub" \notin DOMAIN decoded_token.claims
        THEN Raises("KeyError")
        ELSE LET splitted_sub == split_maxsplit_1(decoded_token.claims.sub, "-")
             IN  IF Len(splitted_sub) = 2
                 THEN Returns(splitted_sub[2])
                 ELSE ReturnsNone

verify_email_verification_token(tok, t) ==
    LET decoded_token == jwt_decode(tok, SECRET_KEY, t)
    IN  IF decoded_token.raised \in InvalidTokenErrors
        THEN ReturnsNone
        ELSE IF "sub" \notin DOMAIN decoded_token.claims
        THEN Raises("KeyError")
        ELSE LET splitted_sub == split_maxsplit_1(decoded_token.claims.sub, "-")
             IN  IF Len(splitted_sub) = 2 /\ splitted_sub[1] = TokenType_email
                 THEN Returns(splitted_sub[2])
                 ELSE ReturnsNone

verify_update_email_verification_token(tok, t) ==
    LET decoded_token == jwt_decode(tok, SECRET_KEY, t)
    IN  IF decoded_token.raised \in InvalidTokenErrors
        THEN ReturnsNone
        ELSE IF "sub" \notin DOMAIN decoded_token.claims
        THEN Raises("KeyError")
        ELSE LET splitted_sub == split_maxsplit_1(decoded_token.claims.sub, "-")
                 old_email == IF "old_email" \in DOMAIN decoded_token.claims
                              THEN decoded_token.claims.old_email
                              ELSE None
             IN  IF Len(splitted_sub) = 2 /\ splitted_sub[1] = TokenType_update
                 THEN Returns([email |-> splitted_sub[2], old_email |-> old_email])
                 ELSE ReturnsNone

verify_password_reset_token(tok, t) ==
    LET decoded_token == jwt_decode(tok, SECRET_KEY, t)
    IN  IF decoded_token.raised \in InvalidTokenErrors
        THEN ReturnsNone
        ELSE IF "sub" \notin DOMAIN decoded_token.claims
        THEN Raises("KeyError")
        ELSE LET splitted_sub == split_maxsplit_1(decoded_token.claims.sub, "-")
             IN  IF Len(splitted_sub) = 2 /\ splitted_sub[1] = TokenType_reset
                 THEN Returns(splitted_sub[2])
                 ELSE ReturnsNone

\* The generate and verify function of each kind.
generate_token(kind, email, old_email, t) ==
    CASE kind = TokenType_email -> generate_verification_email_token(email, t)
      [] kind = TokenType_update -> generate_verification_update_email_token(email, old_email, t)
      [] kind = TokenType_reset -> generate_password_reset_token(email, t)

verify_token(kind, tok, t) ==
    CASE kind = TokenType_email -> verify_email_verification_token(tok, t)
      [] kind = TokenType_update -> verify_update_email_verification_token(tok, t)
      [] kind = TokenType_reset -> verify_password_reset_token(tok, t)

\* What a client without SECRET_KEY can make of a token: the subject moved to
\* another kind or the expiry pushed back under the old signature, or the
\* token signed again with a key of its own.
Tamperings(tok) ==
    IF tok = NoToken
    THEN {}
    ELSE {[tok EXCEPT !.claims.sub =
               k \o <<"-">> \o split_maxsplit_1(tok.claims.sub, "-")[2]] :
             k \in TokenKinds \ {split_maxsplit_1(tok.claims.sub, "-")[1]}}
         \cup {[tok EXCEPT !.claims.exp = @ + MaxTokenTime]}
         \cup {jwt_encode(tok.claims, k) : k \in OtherKeys}
         \cup {jwt_encode([tok.claims EXCEPT !.exp = @ + MaxTokenTime], k) : k \in OtherKeys}

IssueToken(kind, email, old_email) ==
    /\ signed_token = NoToken
    /\ signed_token' = generate_token(kind, email, old_email, now)
    /\ token_origin' = [kind |-> kind, email |-> email,
                        old_email |-> IF kind = TokenType_update THEN old_email ELSE None,
                        at |-> now, issued |-> signed_token']
    /\ UNCHANGED <<devVars, oauthVars, pkce, verdict>>

TamperToken ==
    /\ signed_token # NoToken
    /\ signed_token = token_origin.issued
    /\ signed_token' \in Tamperings(signed_token)
    /\ UNCHANGED <<devVars, oauthVars, pkce, token_origin, verdict>>

VerifyToken(kind) ==
    /\ signed_token # NoToken
    /\ verdict' = [kind |-> kind, token |-> signed_token, at |-> now,
                   result |-> verify_token(kind, signed_token, now)]
    /\ UNCHANGED <<devVars, oauthVars, pkce, signed_token, token_origin>>

TickToken ==
    /\ now < MaxTokenTime
    /\ now' = now + 1
    /\ UNCHANGED <<redis, issued, authz, oauthVars, utilVars>>

NextToken ==
    \/ \E k \in TokenKinds, e \in TokenEmails, o \in OldEmails : IssueToken(k, e, o)
    \/ TamperToken
    \/ \E k \in TokenKinds : VerifyToken(k)
    \/ TickToken

SpecToken == Init /\ [][NextToken]_vars

----------------------------------------------------------------------------
\* Claims about the device flow.

\* The step in which worker w's authorize_device_code call returns.
AuthorizeReturns(w) == authz[w].pc = "write" /\ authz'[w].pc = "idle"

\* C1 (as stated): an authorize_device_code call on a record that is already
\* authorized fails: when a call that read status = "authorized" ends, what a
\* lookup of that device code returns is what it returned before, so the token
\* of the first authorization is never replaced.
C1_NoSecondAuthorization ==
    [][\A w \in Workers :
          (AuthorizeReturns(w) /\ authz[w].data.status = "authorized")
          => get_device_authorization_data(redis', authz[w].device_code)
               = get_device_authorization_data(redis, authz[w].device_code)]_vars

\* C2 (as stated): of the concurrent authorize_device_code calls that all read
\* the record while it was pending, at most one takes effect: no step changes a
\* non-null access_token that a lookup returns into a different one.
C2_AtMostOneConcurrentAuthorization ==
    [][\A d \in DeviceCodes :
          LET old == get_device_authorization_data(redis, d)
              new == get_device_authorization_data(redis', d)
          IN  (/\ \A w \in Workers :
                     authz[w].pc = "write" => authz[w].data.status = "pending"
               /\ old # NoData /\ new # NoData
               /\ old.access_token # None)
              => new.access_token = old.access_token]_vars

\* C21: the user-code mapping never dangles. In every reachable state (after a
\* create_and_store_device_code that completed or died on the way, after any
\* expiry, and whatever authorize_device_code calls are under way) a live key
\* auth:user-code:<user_code> holds the device code of a live key
\* auth:device:<device_code>, and the mapping does not live longer than it.
C21_NoDanglingUserCode ==
    \A k \in DOMAIN redis :
        k[1] = "auth:user-code"
        => /\ DeviceKey(redis[k].val) \in DOMAIN redis
           /\ redis[k].ex <= redis[DeviceKey(redis[k].val)].ex

\* C21's case: one creation died and left nothing, another completed, and time
\* has passed so that the keys of the completed one are in their last tick.
C21_Witness ==
    /\ issued = 2
    /\ DOMAIN redis = {DeviceKey(2), UserCodeKey(2)}
    /\ redis[UserCodeKey(2)].ex = now + 1

\* The flow of device code d (its user code is the d-th one drawn) has both of
\* its keys in Redis.
BothKeysLive(store, d) ==
    DeviceKey(d) \in DOMAIN store /\ UserCodeKey(d) \in DOMAIN store

\* A step in which create_and_store_device_code completes.
BeginCompletes == issued' = issued + 1 /\ redis' # redis

\* C22: for every device flow, while both keys are live the lookup by user code
\* returns the record the lookup by device code returns; right after
\* create_and_store_device_code that record is pending with no access_token;
\* and right after authorize_device_code(device_code, tok) has returned, the
\* lookup by device code, and with it the lookup by user code while its key is
\* live, reports status authorized and access_token tok.
C22_LookupsAgree ==
    /\ [](\A d \in DeviceCodes :
             BothKeysLive(redis, d)
             => /\ get_device_authorization_data(redis, d) # NoData
                /\ get_device_authorization_data_by_user_code(redis, d)
                      = get_device_authorization_data(redis, d))
    /\ [][/\ BeginCompletes
             => LET data == get_device_authorization_data(redis', issued')
                IN  /\ BothKeysLive(redis', issued')
                    /\ data.status = "pending"
                    /\ data.access_token = None
                    /\ data.device_code = issued'
                    /\ get_device_authorization_data_by_user_code(redis', issued')
                          = data
          /\ \A w \in Workers :
                AuthorizeReturns(w)
                => LET d == authz[w].device_code
                       data == get_device_authorization_data(redis', d)
                   IN  /\ data # NoData
                       /\ data.status = "authorized"
                       /\ data.access_token = authz[w].access_token
                       /\ UserCodeKey(d) \in DOMAIN redis'
                          => get_device_authorization_data_by_user_code(redis', d)
                                = data]_vars

\* C22's case: a flow was authorized while both of its keys are live, and both
\* lookups report the token.
C22_Witness ==
    \E d \in DeviceCodes : \E w \in Workers :
        /\ BothKeysLive(redis, d)
        /\ authz[w].result = "ok"
        /\ get_device_authorization_data(redis, d).status = "authorized"
        /\ get_device_authorization_data_by_user_code(redis, d).access_token
              \in AccessTokens

\* C23: for a device code with no record in Redis (never created, or created
\* and expired) authorize_device_code raises the not-found error and leaves
\* Redis as it is, whatever the token; the lookup by device code returns None
\* for it, and so does the lookup by a user code whose key is absent.
C23_NotFoundWritesNothing ==
    \A d \in DeviceCodes :
        /\ DeviceKey(d) \notin DOMAIN redis
           => /\ get_device_authorization_data(redis, d) = NoData
              /\ \A tok \in AccessTokens :
                    \E r \in {authorize_device_code(redis, d, tok, now)} :
                       /\ r.raised = "ValueError: Device code not found"
                       /\ r.store = redis
        /\ UserCodeKey(d) \notin DOMAIN redis
           => get_device_authorization_data_by_user_code(redis, d) = NoData

\* C23's case: the first device code was created and has expired, the second
\* was never stored, and authorize_device_code fails for both.
C23_Witness ==
    /\ issued = 1
    /\ now >= DEVICE_AUTH_TTL
    /\ \A d \in {1, 2} :
          /\ DeviceKey(d) \notin DOMAIN redis
          /\ authorize_device_code(redis, d, "tok-1", now).raised # None

\* What a client polling get_device_authorization_data(device_code) sees: the
\* record is still pending, or polling is over (the record is gone, or it is
\* authorized and carries an access token).
Pending(d) ==
    /\ get_device_authorization_data(redis, d) # NoData
    /\ get_device_authorization_data(redis, d).status = "pending"
PollingOver(d) ==
    \/ get_device_authorization_data(redis, d) = NoData
    \/ /\ get_device_authorization_data(redis, d).status = "authorized"
       /\ get_device_authorization_data(redis, d).access_token # None

\* C24: polling terminates. With Redis expiring keys as time passes, a pending
\* record of any device code leads to a state where the lookup by device code
\* finds no record or an authorized one with its access token, and from then
\* on no lookup finds it pending again: a client that keeps polling sees it.
C24_PollingTerminates ==
    /\ \A d \in DeviceCodes : Pending(d) ~> PollingOver(d)
    /\ [][\A d \in DeviceCodes :
             (d <= issued /\ PollingOver(d)) => ~Pending(d)']_vars

\* C24's case: a record is pending in the last tick of its time to live.
C24_Witness ==
    \E d \in DeviceCodes :
        /\ Pending(d)
        /\ redis[DeviceKey(d)].ex = now + 1
        /\ now > 0

----------------------------------------------------------------------------
\* Properties of the OAuth2 flows.

\* A response that redirects, and one that carries an error (in the redirect's
\* query, or as an error status).
Redirects(response) == response.location # NoLocation
CarriesError(response) ==
    IF Redirects(response)
    THEN "error" \in DOMAIN response.location.query_params
    ELSE response.status_code >= 400

\* redirect_uri passes authorize's syntactic check and its trusted-origin check.
PassedRedirectUriChecks(raw) ==
    /\ ~FalsyUrl(raw)
    /\ HttpUrlValid(raw)
    /\ is_valid_redirect_uri(HttpUrlStr(raw))

\* C3 (as stated): a LinkCodeState is redeemable at most once. In every state
\* after finalize_link has succeeded for a link code, a finalize_link call that
\* presents this link code with a verifier matching the stored challenge is
\* rejected, sends no token request upstream and leaves the accounts unchanged,
\* whatever the upstream would answer.
C3_LinkCodeRedeemedOnce ==
    \A c \in finalized :
        \A request \in FinalizeRequests, upstream \in UpstreamReplies :
            LET data == storage_get(secondary_storage, LinkRequestKey(c))
                r == finalize_link(request, upstream, secondary_storage, users,
                                   social_accounts, nsocial + 1, now)
            IN  (/\ request.link_code = c
                 /\ request.authorization = "Bearer test"
                 /\ request.code_verifier \in Verifiers
                 /\ data # NoData =>
                        validate_pkce(data.code_challenge, data.code_challenge_method,
                                      request.code_verifier).value)
                => /\ r.response.status_code # 200
                   /\ ~r.exchanged
                   /\ r.social_accounts = social_accounts
                   /\ r.users = users

\* C4 (as stated): an AuthorizationRequestState is consumed by the callback that
\* reads it, so at most one callback per state gets past the state lookup: no
\* two codes (authorization codes or link codes) are ever minted for the same
\* state.
C4_StateConsumedByCallback ==
    \A c1, c2 \in DOMAIN origin : origin[c1] = origin[c2] => c1 = c2

\* C5: the broker never redirects to an unvalidated destination. In every
\* reachable state of the login flows, whichever authorize request of these
\* flows arrives (trusted, trusted but not in normal form, or untrusted), a
\* redirect it answers goes to the upstream authorization endpoint or to the
\* request's redirect_uri (as URL validation writes it) and that one passed
\* both checks; and whatever callback request arrives and whatever the
\* upstream answers it, a redirect the callback answers goes to the
\* redirect_uri of the authorize request its state was drawn for, which
\* passed both checks.
C5_RedirectsOnlyToValidated ==
    /\ \A request \in FlowAuthorizeRequests :
          LET response == authorize(request, secondary_storage, nstates + 1).response
          IN  Redirects(response) =>
                 \/ response.location.url = AuthorizationEndpoint
                 \/ /\ PassedRedirectUriChecks(request.redirect_uri)
                    /\ response.location.url = HttpUrlStr(request.redirect_uri)
    /\ \A request \in CallbackRequests :
       \A upstream \in RepliesFor(callback_exchanges(request, secondary_storage)) :
          LET response == callback(request, upstream, secondary_storage, users,
                                   social_accounts, ncodes + 1, nsocial + 1,
                                   now).response
          IN  Redirects(response) =>
                 /\ request.state \in DOMAIN requested
                 /\ PassedRedirectUriChecks(requested[request.state].redirect_uri)
                 /\ response.location.url
                       = HttpUrlStr(requested[request.state].redirect_uri)

\* C5's case: a callback has redirected to a client (a code was minted for a
\* state) whose redirect_uri was not sent in the form URL validation writes, and
\* a callback on that state with no provider code redirects there too.
C5_Witness ==
    \E c \in DOMAIN origin :
        LET raw == requested[origin[c]].redirect_uri
            response == callback([state |-> origin[c], code |-> None], NoReply,
                                 secondary_storage, users, social_accounts,
                                 ncodes + 1, nsocial + 1, now).response
        IN  /\ raw # HttpUrlStr(raw)
            /\ Redirects(response)
            /\ response.location.url = HttpUrlStr(raw)

\* C6 (as stated): (provider, provider_user_id) is unique among the
\* SocialAccounts, whatever the interleaving of the callback and finalize_link
\* invocations.
C6_SocialAccountPairUnique ==
    \A a, b \in social_accounts :
        (a.provider = b.provider /\ a.provider_user_id = b.provider_user_id)
        => a = b

\* C7: authorize answers a bare error (status 400, no Location) whenever
\* redirect_uri is missing (error invalid_request), is no valid absolute URL or
\* fails the trusted-origin check (error invalid_redirect_uri), whatever the
\* other query parameters and whatever the store holds.
C7_BareErrorForBadRedirectUri ==
    \A request \in AuthorizeRequests :
        LET raw == request.redirect_uri
            response == authorize(request, secondary_storage, nstates + 1).response
        IN  /\ FalsyUrl(raw) =>
                 /\ response.status_code = 400
                 /\ ~Redirects(response)
                 /\ response.body.error = "invalid_request"
            /\ (~FalsyUrl(raw) /\ ~PassedRedirectUriChecks(raw)) =>
                 /\ response.status_code = 400
                 /\ ~Redirects(response)
                 /\ response.body.error = "invalid_redirect_uri"

\* C7's case: with records in the store, requests whose other parameters are
\* all valid get the bare errors: one without redirect_uri, one with a relative
\* one, one with an untrusted one.
C7_Witness ==
    /\ nstates >= 1
    /\ \A u \in {NoneUrl, Url("", "valid-frontend.com", <<"callback">>),
                 Url("http", "malicious.com", <<"callback">>)} :
          LET request == AuthorizeRequest(u, "code", calculate_s256_challenge("test"),
                                          "S256", None, None)
          IN  /\ request \in AuthorizeRequests
              /\ authorize(request, secondary_storage, nstates + 1)
                     .response.status_code = 400

\* C8: once redirect_uri has passed both checks, authorize reports a missing
\* response_type, one outside {code, link_code}, a missing code_challenge or a
\* code_challenge_method other than S256 as a 302 redirect to that redirect_uri
\* (as URL validation writes it) carrying error=invalid_request and an
\* error_description: not as a bare error and not as a redirect upstream.
C8_RedirectedErrorAfterValidation ==
    \A request \in AuthorizeRequests :
        LET raw == request.redirect_uri
            response == authorize(request, secondary_storage, nstates + 1).response
        IN  (/\ PassedRedirectUriChecks(raw)
             /\ \/ Falsy(request.response_type)
                \/ request.response_type \notin {"code", "link_code"}
                \/ Falsy(request.code_challenge)
                \/ request.code_challenge_method # "S256")
            => /\ response.status_code = 302
               /\ Redirects(response)
               /\ response.location.url = HttpUrlStr(raw)
               /\ response.location.url # AuthorizationEndpoint
               /\ response.location.query_params.error = "invalid_request"
               /\ ~Falsy(response.location.query_params.error_description)

\* C8's case: with records in the store, each of the four faults, on a trusted
\* redirect_uri, is answered with a redirect that carries an error.
C8_Witness ==
    /\ nstates >= 1
    /\ \A request \in
          {AuthorizeRequest(Url("http", "valid-frontend.com", <<"callback">>),
                            rt, cc, m, None, None) :
              rt \in {None, "token"}, cc \in {calculate_s256_challenge("test")},
              m \in {"S256"}}
          \cup
          {AuthorizeRequest(Url("HTTP", "Valid-Frontend.com", << >>),
                            "code", cc, m, None, None) :
              cc \in {None, calculate_s256_challenge("test")}, m \in {None, "plain"}} :
          /\ request \in AuthorizeRequests
          /\ CarriesError(authorize(request, secondary_storage, nstates + 1).response)
          /\ Redirects(authorize(request, secondary_storage, nstates + 1).response)

\* C9: a rejected authorize request persists nothing. Whatever request arrives
\* in whatever reachable state, if the response carries an error (bare or as a
\* redirect) the secondary storage is as it was before the call.
C9_RejectedAuthorizePersistsNothing ==
    \A request \in AuthorizeRequests :
        LET r == authorize(request, secondary_storage, nstates + 1)
        IN  CarriesError(r.response) => r.storage = secondary_storage

\* C9's case: the store holds a record, and requests rejected with a bare error
\* and with a redirect-carried error exist and leave it as it is.
C9_Witness ==
    /\ nstates >= 1
    /\ secondary_storage # << >>
    /\ \E request \in AuthorizeRequests :
          LET r == authorize(request, secondary_storage, nstates + 1)
          IN  ~Redirects(r.response) /\ CarriesError(r.response)
              /\ r.storage = secondary_storage
    /\ \E request \in AuthorizeRequests :
          LET r == authorize(request, secondary_storage, nstates + 1)
          IN  Redirects(r.response) /\ CarriesError(r.response)
              /\ request.response_type = "code"
              /\ r.storage = secondary_storage

\* C10 (as stated): the stored AuthorizationRequestState round-trips exactly:
\* after any sequence of successful authorize calls, the record under each
\* call's state holds that call's redirect_uri, code_challenge,
\* code_challenge_method, link flag and state.
C10_RoundTripsExactly ==
    \A st \in DOMAIN requested :
        LET data == storage_get(secondary_storage, AuthorizationRequestKey(st))
            request == requested[st]
        IN  /\ data # NoData
            /\ data.redirect_uri = request.redirect_uri
            /\ data.code_challenge = request.code_challenge
            /\ data.code_challenge_method = request.code_challenge_method
            /\ data.link = (request.response_type = "link_code")
            /\ data.state = st

\* C10 (amended): after any sequence of successful authorize calls, each call
\* has drawn a state of its own, and the record under each call's state holds
\* that call's redirect_uri as URL validation writes it (scheme and host in
\* lower case, an empty path as "/"), and its code_challenge,
\* code_challenge_method, link flag, login_hint, client state and state
\* unchanged; no call has overwritten the record of another.
C10_RoundTripsNormalised ==
    /\ DOMAIN requested = 1..nstates
    /\ \A st \in DOMAIN requested :
          LET data == storage_get(secondary_storage, AuthorizationRequestKey(st))
              request == requested[st]
          IN  /\ data # NoData
              /\ data.redirect_uri = HttpUrlStr(request.redirect_uri)
              /\ data.code_challenge = request.code_challenge
              /\ data.code_challenge_method = request.code_challenge_method
              /\ data.link = (request.response_type = "link_code")
              /\ data.login_hint = request.login_hint
              /\ data.client_state = request.state
              /\ data.state = st

\* C10's case: two successful calls with different requests, the first with a
\* redirect_uri that URL validation rewrites, the second a link request.
C10_Witness ==
    /\ nstates >= 2
    /\ requested[1] # requested[2]
    /\ requested[1].redirect_uri # HttpUrlStr(requested[1].redirect_uri)
    /\ requested[2].response_type = "link_code"
    /\ storage_get(secondary_storage, AuthorizationRequestKey(1)).redirect_uri
          = HttpUrlStr(requested[1].redirect_uri)

\* Upstream answers to try on a handler that is expected not to ask for one:
\* none, a refusal, and two identities that would otherwise log in or clash.
UnaskedReplies ==
    {NoReply,
     UpstreamReply("error", None, FALSE, "a@example.com", "p1"),
     UpstreamReply("ok", "tokens-1", FALSE, "a@example.com", "p1"),
     UpstreamReply("ok", "tokens-2", FALSE, "test@example.com", "p2")}

\* A stored authorization request that model_validate_json rejects (its
\* code_challenge_method is not S256), and the stores to look at: the secondary
\* storage as it is, and with the record of one state replaced by that one.
MalformedAuthorizationRequest ==
    [redirect_uri          |-> Url("http", "malicious.com", <<"callback">>),
     login_hint            |-> None,
     client_state          |-> None,
     state                 |-> 1,
     code_challenge        |-> calculate_s256_challenge("test"),
     code_challenge_method |-> "plain",
     link                  |-> FALSE]
WithMalformedRecord(storage) ==
    {storage} \cup
    {storage_set(storage, AuthorizationRequestKey(st), MalformedAuthorizationRequest) :
        st \in 1..MaxStates}

\* C11: a callback whose state is missing or has no stored record, or whose
\* stored record is malformed, answers a bare server_error (no Location) and
\* changes neither the secondary storage nor the accounts, and asks nothing of
\* the upstream; whatever the rest of the request, and whether the upstream
\* would give no answer, refuse, or answer for an identity.
C11_BareErrorWithoutValidState ==
    \A storage \in WithMalformedRecord(secondary_storage) :
        \A request \in CallbackRequests :
            LET data == storage_get(storage, AuthorizationRequestKey(request.state))
            IN  (\/ request.state = 0
                 \/ data = NoData
                 \/ ~ValidAuthorizationRequestData(data))
                => \A upstream \in UnaskedReplies :
                      \E r \in {callback(request, upstream, storage, users,
                                         social_accounts, ncodes + 1, nsocial + 1,
                                         now)} :
                         /\ ~Redirects(r.response)
                         /\ r.response.status_code = 400
                         /\ r.response.body.error = "server_error"
                         /\ r.storage = storage
                         /\ r.users = users
                         /\ r.social_accounts = social_accounts
                         /\ ~r.exchanged /\ ~r.minted /\ ~r.created

\* C11's case: flows have run (a state is stored, a user and a SocialAccount
\* were created), and callbacks with no state, with a state never drawn and
\* with a state whose record is malformed each get the bare error.
C11_Witness ==
    /\ nstates = 1
    /\ social_accounts # {}
    /\ LET request(st) == [state |-> st, code |-> "pc-1"]
           bad == storage_set(secondary_storage, AuthorizationRequestKey(1),
                              MalformedAuthorizationRequest)
           answer(st, storage) ==
               callback(request(st), NoReply, storage, users, social_accounts,
                        ncodes + 1, nsocial + 1, now).response
       IN  /\ answer(0, secondary_storage).body.error_description
                 = "No state found in request"
           /\ answer(2, secondary_storage).body.error_description
                 = "Provider data not found"
           /\ answer(1, bad).body.error_description = "Invalid provider data"

\* A callback's answer is a 302 redirect to redirect_uri that carries a code or
\* link code, or else an error and its description.
DeliveredByRedirect(r, redirect_uri) ==
    /\ r.response.status_code = 302
    /\ Redirects(r.response)
    /\ r.response.location.url = redirect_uri
    /\ ~r.minted =>
          /\ DOMAIN r.response.location.query_params = {"error", "error_description"}
          /\ ~Falsy(r.response.location.query_params.error)
          /\ ~Falsy(r.response.location.query_params.error_description)

\* C12 (as stated): once callback has loaded the stored authorization request,
\* it ends in a 302 redirect to the stored redirect_uri, which carries error and
\* error_description whenever the callback fails; never in a bare error or an
\* unhandled exception. This for a callback about to start, whatever its
\* request and the upstream's answer, and for a callback under way, whatever
\* other handlers did since it called find_social_account or find_user_by_email.
C12_FailuresAfterLoadRedirected ==
    /\ \A request \in CallbackRequests, upstream \in UpstreamReplies :
          LET data == storage_get(secondary_storage,
                                  AuthorizationRequestKey(request.state))
          IN  (request.state # 0 /\ data # NoData
                  /\ ValidAuthorizationRequestData(data))
              => DeliveredByRedirect(
                     callback(request, upstream, secondary_storage, users,
                              social_accounts, ncodes + 1, nsocial + 1, now),
                     data.redirect_uri)
    /\ \A w \in Workers :
          LET call == inflight[w]
              data == storage_get(secondary_storage,
                                  AuthorizationRequestKey(call.request.state))
          IN  /\ call.pc = "callback" =>
                    DeliveredByRedirect(
                        callback_with(call.found, call.request, call.upstream,
                                      secondary_storage, users, social_accounts,
                                      ncodes + 1, nsocial + 1, now),
                        data.redirect_uri)
              /\ call.pc = "callback_create" =>
                    DeliveredByRedirect(
                        callback_create(data, fetch_user_info(call.upstream),
                                        secondary_storage, users, social_accounts,
                                        ncodes + 1, nsocial + 1, now),
                        data.redirect_uri)

\* C13: a non-link callback that gets as far as the account lookup, for an
\* upstream identity that has no SocialAccount but whose email is that of an
\* existing user, redirects to the stored redirect_uri with the error
\* account_exists and adds nothing: no user, no SocialAccount (so none for the
\* existing user either) and no entry in the secondary storage.
C13_AccountExistsCreatesNothing ==
    \A request \in CallbackRequests, upstream \in UpstreamReplies :
        LET data == storage_get(secondary_storage,
                                AuthorizationRequestKey(request.state))
            r == callback(request, upstream, secondary_storage, users,
                          social_accounts, ncodes + 1, nsocial + 1, now)
        IN  (/\ callback_reaches_find(request, upstream, secondary_storage)
             /\ \A a \in social_accounts :
                   ~(a.provider = ProviderId /\ a.provider_user_id = upstream.id)
             /\ \E id \in DOMAIN users : users[id] = upstream.email)
            => /\ r.response.status_code = 302
               /\ Redirects(r.response)
               /\ r.response.location.url = data.redirect_uri
               /\ CarriesError(r.response)
               /\ r.response.location.query_params.error = "account_exists"
               /\ r.users = users
               /\ r.social_accounts = social_accounts
               /\ r.storage = secondary_storage
               /\ ~r.minted /\ ~r.created

\* C13's case: a first login created the user p1 with the email a@example.com,
\* and a callback arrives for another identity, p2, with that email.
C13_Witness ==
    /\ "p1" \in DOMAIN users
    /\ social_accounts # {}
    /\ \E request \in CallbackRequests :
          LET upstream == UpstreamReply("ok", "tokens-2", FALSE, users["p1"], "p2")
              r == callback(request, upstream, secondary_storage, users,
                            social_accounts, ncodes + 1, nsocial + 1, now)
          IN  /\ callback_reaches_find(request, upstream, secondary_storage)
              /\ find_social_account(social_accounts, ProviderId, "p2") = NoAccount
              /\ Redirects(r.response)
              /\ CarriesError(r.response)
              /\ r.response.location.query_params.error = "account_exists"

\* The SocialAccounts without their token fields.
WithoutTokens(social) == {[a EXCEPT !.token_response = None] : a \in social}

\* C14: account identity is idempotent across logins. All authorization codes
\* minted so far for one upstream identity carry the same user_id; and a
\* callback that mints an authorization code, if the identity has no
\* SocialAccount yet, adds exactly one user and exactly one SocialAccount (of
\* that identity, owned by that user, the user of the grant), and if it has one,
\* adds no user and no SocialAccount, changes nothing but token fields, and
\* grants to the owner of that SocialAccount.
C14_IdempotentAccountIdentity ==
    /\ \A p, q \in logins :
          p.provider_user_id = q.provider_user_id => p.user_id = q.user_id
    /\ \A request \in CallbackRequests :
       \A upstream \in RepliesFor(callback_exchanges(request, secondary_storage)) :
          LET r == callback(request, upstream, secondary_storage, users,
                            social_accounts, ncodes + 1, nsocial + 1, now)
              granted == storage_get(r.storage, CodeKey(ncodes + 1)).user_id
              known == {a \in social_accounts : /\ a.provider = ProviderId
                                                /\ a.provider_user_id = upstream.id}
              added == r.social_accounts \ social_accounts
          IN  (r.minted /\ r.exchanged) =>
                 IF known = {}
                 THEN /\ Cardinality(DOMAIN r.users) = Cardinality(DOMAIN users) + 1
                      /\ \A id \in DOMAIN users : r.users[id] = users[id]
                      /\ social_accounts \subseteq r.social_accounts
                      /\ Cardinality(added) = 1
                      /\ \A a \in added : /\ a.provider = ProviderId
                                          /\ a.provider_user_id = upstream.id
                                          /\ a.user_id = granted
                                          /\ a.user_id \in DOMAIN r.users \ DOMAIN users
                 ELSE /\ r.users = users
                      /\ ~r.created
                      /\ WithoutTokens(r.social_accounts) = WithoutTokens(social_accounts)
                      /\ \A a \in r.social_accounts :
                            a.provider_user_id # upstream.id => a \in social_accounts
                      /\ \A a \in known : a.user_id = granted
                      /\ \A p \in logins :
                            p.provider_user_id = upstream.id => p.user_id = granted

\* C14's case: the identity p1 has logged in twice, the upstream answering with
\* different emails and tokens, and the one SocialAccount holds the later tokens.
C14_Witness ==
    /\ Cardinality(DOMAIN origin) = 2
    /\ Cardinality(logins) = 1
    /\ \E p \in logins : p.provider_user_id = "p1" /\ p.user_id = "p1"
    /\ users["p1"] = "a@example.com"
    /\ Cardinality(social_accounts) = 1
    /\ \E a \in social_accounts : a.token_response = "tokens-2"
    /\ storage_get(secondary_storage, CodeKey(1)) # NoData
    /\ storage_get(secondary_storage, CodeKey(2)) # NoData

\* C15: when the stored authorization request has link = true, callback defers
\* everything. It sends no token request upstream and leaves the accounts as
\* they are; its answer and its write do not depend on the accounts or on what
\* the upstream would answer; and when the provider sent a code, all it does is
\* store, under a fresh code, a link request that carries the provider's code
\* and the stored redirect_uri and challenge, and redirect to the stored
\* redirect_uri with link_code.
C15_LinkCallbackDefersEverything ==
    \A request \in CallbackRequests, upstream \in UnaskedReplies :
        LET data == storage_get(secondary_storage,
                                AuthorizationRequestKey(request.state))
            code == ncodes + 1
            r == callback(request, upstream, secondary_storage, users,
                          social_accounts, code, nsocial + 1, now)
            alone == callback(request, NoReply, secondary_storage, InitialUsers, {},
                              code, nsocial + 1, now)
            stored == storage_get(r.storage, LinkRequestKey(code))
        IN  (/\ request.state # 0
             /\ data # NoData
             /\ ValidAuthorizationRequestData(data)
             /\ data.link)
            => /\ ~r.exchanged
               /\ ~r.created
               /\ r.users = users
               /\ r.social_accounts = social_accounts
               /\ r.response = alone.response
               /\ r.storage = alone.storage
               /\ ~Falsy(request.code) =>
                     /\ LinkRequestKey(code) \notin DOMAIN secondary_storage
                     /\ DOMAIN r.storage = DOMAIN secondary_storage \cup {LinkRequestKey(code)}
                     /\ \A k \in DOMAIN secondary_storage :
                           r.storage[k] = secondary_storage[k]
                     /\ stored.provider_code = request.code
                     /\ stored.redirect_uri = data.redirect_uri
                     /\ stored.code_challenge = data.code_challenge
                     /\ stored.code_challenge_method = data.code_challenge_method
                     /\ "user_id" \notin DOMAIN stored
                     /\ r.response
                           = Response_redirect(data.redirect_uri, [link_code |-> code])

\* C15's case: a login has created a user and a SocialAccount, and a link
\* callback has since stored link request 2 with the provider's code pc-2.
C15_Witness ==
    /\ social_accounts # {}
    /\ users # InitialUsers
    /\ storage_get(secondary_storage, CodeKey(1)) # NoData
    /\ storage_get(secondary_storage, LinkRequestKey(2)) # NoData
    /\ storage_get(secondary_storage, LinkRequestKey(2)).provider_code = "pc-2"
    /\ requested[origin[2]].response_type = "link_code"

\* C16: finalize_link without an authenticated caller answers a bare 401
\* "unauthorized", never a redirect, and has no effect: whatever link code and
\* verifier it presents and whatever the upstream would answer, the answer is
\* the one an empty secondary storage gives (the link code is not looked up),
\* no upstream exchange is made, and the secondary storage, the users and the
\* social accounts are left as they were.
Unauthenticated(request) == get_user_from_request(request) = NoUser

C16_UnauthenticatedFinalizeHasNoEffect ==
    \A request \in FinalizeRequests : \A upstream \in LinkReplies :
        Unauthenticated(request) =>
            \E r \in {finalize_link(request, upstream, secondary_storage, users,
                                    social_accounts, nsocial + 1, now)} :
                /\ r.response.status_code = 401
                /\ ~Redirects(r.response)
                /\ r.response.body.error = "unauthorized"
                /\ r.response = finalize_link(request, upstream, << >>, users,
                                              social_accounts, nsocial + 1, now).response
                /\ ~r.exchanged
                /\ r.storage = secondary_storage
                /\ r.users = users
                /\ r.social_accounts = social_accounts

\* An unauthenticated caller presents a stored, unexpired link code with its
\* verifier and is answered 401.
C16_Witness ==
    \E request \in FinalizeRequests :
        /\ Unauthenticated(request)
        /\ request.code_verifier = "test"
        /\ storage_get(secondary_storage, LinkRequestKey(request.link_code)) # NoData
        /\ storage_get(secondary_storage, LinkRequestKey(request.link_code)).expires_at >= now
        /\ finalize_link(request, NoReply, secondary_storage, users,
                         social_accounts, nsocial + 1, now).response.status_code = 401

\* C17: finalize_link makes the upstream exchange and changes the users or the
\* social accounts only if the caller is authenticated, a link code record is
\* stored for the presented link_code, the record has not expired, its method
\* is S256 and the presented code_verifier hashes to the stored code_challenge;
\* when any of these fails the answer is an error (status 400 or more, no
\* redirect) and neither an exchange nor a change of the accounts happens.
FinalizeChecksHold(request) ==
    LET data == storage_get(secondary_storage, LinkRequestKey(request.link_code))
    IN  /\ ~Unauthenticated(request)
        /\ request.link_code # 0
        /\ data # NoData
        /\ data.expires_at >= now
        /\ data.code_challenge_method = "S256"
        /\ request.code_verifier \in Verifiers
        /\ calculate_s256_challenge(request.code_verifier) = data.code_challenge

C17_ExchangeOnlyAfterAllChecks ==
    \A request \in FinalizeRequests : \A upstream \in LinkReplies :
        \E r \in {finalize_link(request, upstream, secondary_storage, users,
                                social_accounts, nsocial + 1, now)} :
            /\ (r.exchanged \/ r.created \/ r.users # users
                    \/ r.social_accounts # social_accounts)
                  => FinalizeChecksHold(request)
            /\ ~FinalizeChecksHold(request)
                  => /\ r.response.status_code >= 400
                     /\ ~Redirects(r.response)
                     /\ ~r.exchanged
                     /\ r.users = users
                     /\ r.social_accounts = social_accounts

\* A request that passes every check is exchanged and links the identity,
\* while the same link code with another verifier is refused.
C17_Witness ==
    \E request \in FinalizeRequests : \E upstream \in LinkReplies :
        /\ FinalizeChecksHold(request)
        /\ \E r \in {finalize_link(request, upstream, secondary_storage, users,
                                   social_accounts, nsocial + 1, now)} :
              r.exchanged /\ r.social_accounts # social_accounts
        /\ ~FinalizeChecksHold([request EXCEPT !.code_verifier = "wrong"])

\* C18: a SocialAccount is never relinked to another owner. finalize_link by a
\* user for an upstream identity whose SocialAccount belongs to another user is
\* refused (an error, no redirect) and changes neither the users nor the social
\* accounts; and whatever callback or finalize_link does, every SocialAccount
\* that existed before it is still there with the same user_id, provider and
\* provider_user_id.
KeepsOwners(r) ==
    \A a \in social_accounts :
        \E b \in r.social_accounts :
            /\ b.id = a.id
            /\ b.user_id = a.user_id
            /\ b.provider = a.provider
            /\ b.provider_user_id = a.provider_user_id

OwnedByAnother(request, upstream) ==
    LET found == find_social_account(social_accounts, ProviderId, upstream.id)
    IN  /\ finalize_link_reaches_find(request, upstream, secondary_storage, now)
        /\ found # NoAccount
        /\ found.user_id # get_user_from_request(request)

C18_SocialAccountKeepsOwner ==
    /\ \A request \in FinalizeRequests : \A upstream \in LinkReplies :
          \E r \in {finalize_link(request, upstream, secondary_storage, users,
                                  social_accounts, nsocial + 1, now)} :
             /\ KeepsOwners(r)
             /\ OwnedByAnother(request, upstream)
                   => /\ r.response.status_code >= 400
                      /\ ~Redirects(r.response)
                      /\ r.users = users
                      /\ r.social_accounts = social_accounts
    /\ \A request \in LinkCallbackRequests : \A upstream \in LinkReplies :
          KeepsOwners(callback(request, upstream, secondary_storage, users,
                               social_accounts, ncodes + 1, nsocial + 1, now))

\* The identity has logged in and so belongs to the user made for it; the user
\* "test" presents a good link code for the same identity and is refused.
C18_Witness ==
    \E request \in FinalizeRequests : \E upstream \in LinkReplies :
        /\ OwnedByAnother(request, upstream)
        /\ finalize_link(request, upstream, secondary_storage, users,
                         social_accounts, nsocial + 1, now).response.body.error_description
              = "Social account already exists"

\* C19 (as stated): when the upstream exchange of a non-link callback fails (the
\* token request fails or is answered with an error, the user-info request
\* fails, or the user info has no non-empty email or no non-empty id, which
\* includes user info that is not an object at all), the callback redirects
\* to the stored redirect_uri with the error server_error and a description,
\* the users and the social accounts are left as they were, and no oauth:code
\* entry is stored.
UpstreamFails(upstream) ==
    \/ upstream.token # "ok"
    \/ upstream.info_raises
    \/ ~upstream.info_object
    \/ Falsy(upstream.email)
    \/ Falsy(upstream.id)

C19_UpstreamFailureIsServerError ==
    \A request \in CallbackRequests, upstream \in UpstreamReplies :
        (callback_exchanges(request, secondary_storage) /\ UpstreamFails(upstream))
        => \E r \in {callback(request, upstream, secondary_storage, users,
                              social_accounts, ncodes + 1, nsocial + 1, now)} :
              /\ DeliveredByRedirect(
                     r, storage_get(secondary_storage,
                                    AuthorizationRequestKey(request.state)).redirect_uri)
              /\ CarriesError(r.response)
              /\ r.response.location.query_params.error = "server_error"
              /\ r.users = users
              /\ r.social_accounts = social_accounts
              /\ ~r.minted
              /\ r.storage = secondary_storage

\* C20: when a non-link callback gets as far as create_user and the accounts
\* storage rejects the new user with a domain error, the callback redirects to
\* the stored redirect_uri with that error's own code and description, and
\* leaves everything as it was: no user, no SocialAccount, no oauth:code entry.
CreateUserRejects(request, upstream) ==
    /\ callback_reaches_find(request, upstream, secondary_storage)
    /\ find_social_account(social_accounts, ProviderId, upstream.id) = NoAccount
    /\ find_user_by_email(users, upstream.email) = NoUser
    /\ create_user(users, fetch_user_info(upstream).user_info).outcome
          = "FastAPIAuthException"

C20_CreateUserRejectionSurfaced ==
    \A request \in CallbackRequests, upstream \in UpstreamReplies :
        CreateUserRejects(request, upstream)
        => \E r \in {callback(request, upstream, secondary_storage, users,
                              social_accounts, ncodes + 1, nsocial + 1, now)},
              e \in {create_user(users, fetch_user_info(upstream).user_info)} :
              /\ DeliveredByRedirect(
                     r, storage_get(secondary_storage,
                                    AuthorizationRequestKey(request.state)).redirect_uri)
              /\ CarriesError(r.response)
              /\ r.response.location.query_params.error = e.error
              /\ r.response.location.query_params.error_description
                    = e.error_description
              /\ r.users = users
              /\ r.social_accounts = social_accounts
              /\ ~r.minted /\ ~r.created
              /\ r.storage = secondary_storage

\* A callback for an identity whose email is not invited is answered with a
\* redirect carrying email_not_invited.
C20_Witness ==
    \E request \in CallbackRequests, upstream \in UpstreamReplies :
        /\ CreateUserRejects(request, upstream)
        /\ \E r \in {callback(request, upstream, secondary_storage, users,
                              social_accounts, ncodes + 1, nsocial + 1, now)} :
              /\ CarriesError(r.response)
              /\ r.response.location.query_params.error = "email_not_invited"
----------------------------------------------------------------------------
\* Properties of the pure helpers.

\* The validate_pkce call has returned or raised.
PkceReturned == pkce.outcome # NotReturned

\* C25: under S256, validate_pkce returns true when the stored challenge is the
\* S256 challenge of the received verifier and false when it is the challenge of
\* any other verifier (the challenges of distinct verifiers differ); the
\* challenge of "test" accepts "test" and rejects "wrong".
C25_PkceExact ==
    /\ \A v1, v2 \in PkceVerifiers :
          v1 # v2 => calculate_s256_challenge(v1) # calculate_s256_challenge(v2)
    /\ (PkceReturned /\ pkce.stored_method = "S256")
          => /\ ~pkce.outcome.raised
             /\ \A v \in PkceVerifiers :
                   pkce.stored_challenge = calculate_s256_challenge(v)
                   => (pkce.outcome.value <=> pkce.received_verifier = v)
    /\ (/\ PkceReturned
        /\ pkce.stored_method = "S256"
        /\ pkce.stored_challenge = "n4bQgYhMfWWaL-qgxVrQFaO_TxsrC4Is0V1sFbDwCgg")
          => /\ pkce.received_verifier = "test" => pkce.outcome.value
             /\ pkce.received_verifier = "wrong" => ~pkce.outcome.value

C25_Witness ==
    /\ PkceReturned
    /\ pkce.stored_method = "S256"
    /\ pkce.stored_challenge = calculate_s256_challenge("test")
    /\ pkce.received_verifier = "wrong"
    /\ ~pkce.outcome.raised
    /\ ~pkce.outcome.value

\* C26: with a stored method other than S256, validate_pkce raises
\* ValueError("Unsupported code challenge method") whatever the challenge and
\* the verifier, also when the verifier matches the challenge as it is or
\* through S256; it returns neither true nor false.
C26_UnsupportedMethodRaises ==
    (PkceReturned /\ pkce.stored_method # "S256") => pkce.outcome.raised

C26_Witness ==
    /\ PkceReturned
    /\ pkce.stored_method = "plain"
    /\ pkce.stored_challenge = pkce.received_verifier
    /\ pkce.outcome.raised
\* The lifetime a token of each kind is issued with, and the payload its
\* generate call was given, as the verify function of the kind returns it.
ExpireHours(kind) ==
    IF kind = TokenType_reset
    THEN EMAIL_RESET_TOKEN_EXPIRE_HOURS
    ELSE EMAIL_VERIFICATION_TOKEN_EXPIRE_HOURS
OriginalPayload ==
    IF token_origin.kind = TokenType_update
    THEN [email |-> token_origin.email, old_email |-> token_origin.old_email]
    ELSE token_origin.email
VerdictOnIssued == verdict # NoVerdict /\ verdict.token = token_origin.issued
VerdictExpired == verdict.at >= token_origin.at + ExpireHours(token_origin.kind)

\* C27: a token of any kind, verified as issued by the verify function of its
\* own kind before its expiry, gives back exactly the payload it was issued for
\* (the email, and for an update token the email and the old_email), also when
\* the payload contains '-'.
C27_RoundTrip ==
    (/\ VerdictOnIssued
     /\ verdict.kind = token_origin.kind
     /\ ~VerdictExpired)
        => verdict.result = Returns(OriginalPayload)

C27_Witness ==
    /\ VerdictOnIssued
    /\ verdict.kind = TokenType_update
    /\ token_origin.kind = TokenType_update
    /\ token_origin.email = <<"-", "a">>
    /\ token_origin.old_email = <<"b", "-">>
    /\ verdict.at = token_origin.at + 1
    /\ verdict.result = Returns([email |-> <<"-", "a">>, old_email |-> <<"b", "-">>])

\* C28: the verify function of one kind never accepts a token issued for
\* another kind, and a kind mismatch, an expired token and a token whose
\* signature does not match all give the same result, None, with no exception.
C28_KindsIsolated ==
    verdict # NoVerdict
        => /\ verdict.result.raised = None
           /\ (\/ verdict.kind # token_origin.kind
               \/ VerdictExpired
               \/ verdict.token # token_origin.issued)
                  => verdict.result = ReturnsNone

C28_Witness ==
    /\ VerdictOnIssued
    /\ ~VerdictExpired
    /\ verdict.kind = TokenType_email
    /\ token_origin.kind = TokenType_reset
    /\ verdict.result = ReturnsNone
----------------------------------------------------------------------------
\* Properties that compare lookups.

\* No LinkCodeState is stored for the link code; one is stored and has expired.
LinkCodeMissing(code) == storage_get(secondary_storage, LinkRequestKey(code)) = NoData
LinkCodeExpired(code) ==
    /\ ~LinkCodeMissing(code)
    /\ storage_get(secondary_storage, LinkRequestKey(code)).expires_at < now

\* C29 (as stated): finalize_link answers a request whose link_code has no
\* stored LinkCodeState exactly as it answers the same request with a link_code
\* whose LinkCodeState has expired: same status, same error, same
\* error_description.
C29_MissAndExpiryAlike ==
    \A missing, expired \in FinalizeRequests :
        (/\ missing.authorization = expired.authorization
         /\ missing.code_verifier = expired.code_verifier
         /\ missing.link_code # 0
         /\ LinkCodeMissing(missing.link_code)
         /\ LinkCodeExpired(expired.link_code))
            => finalize_link(missing, NoReply, secondary_storage, users,
                             social_accounts, nsocial + 1, now).response
               = finalize_link(expired, NoReply, secondary_storage, users,
                               social_accounts, nsocial + 1, now).response
----------------------------------------------------------------------------
\* Frame properties of the two stores.

\* The entry of a key in a store, and the entries of one flow instance: a
\* device code with its user code, a state, a code or link code.
Entry(store, key) == IF key \in DOMAIN store THEN store[key] ELSE NoData
DeviceEntries(store, d) == <<Entry(store, DeviceKey(d)), Entry(store, UserCodeKey(d))>>
StateEntries(store, st) == Entry(store, AuthorizationRequestKey(st))
CodeEntries(store, c) == <<Entry(store, CodeKey(c)), Entry(store, LinkRequestKey(c))>>

\* The instances a step is performed for: the device code it creates or whose
\* authorize_device_code call returns in it, the state it draws, the code it mints.
StepDevices ==
    {d \in DeviceCodes : \/ issued' = d /\ issued = d - 1
                         \/ \E w \in Workers : AuthorizeReturns(w) /\ authz[w].device_code = d}
StepStates == {st \in 1..MaxStates : nstates' = st /\ nstates = st - 1}
StepCodes == {c \in 1..MaxCodes : ncodes' = c /\ ncodes = c - 1}

\* C30: a step performed for one flow instance leaves the store entries of
\* every other flow instance as they were: the record and user-code mapping of
\* every other device code, the authorization request of every other state, and
\* the grant or link record of every other code; and every key either store
\* holds belongs to one of these instances.
C30_OtherInstancesUntouched ==
    [][/\ \A d \in DeviceCodes \ StepDevices :
             DeviceEntries(redis', d) = DeviceEntries(redis, d)
       /\ \A st \in (1..MaxStates) \ StepStates :
             StateEntries(secondary_storage', st) = StateEntries(secondary_storage, st)
       /\ \A c \in (1..MaxCodes) \ StepCodes :
             CodeEntries(secondary_storage', c) = CodeEntries(secondary_storage, c)
       /\ DOMAIN redis' \subseteq UNION {{DeviceKey(d), UserCodeKey(d)} : d \in DeviceCodes}
       /\ DOMAIN secondary_storage' \subseteq
              {AuthorizationRequestKey(st) : st \in 1..MaxStates}
              \cup UNION {{CodeKey(c), LinkRequestKey(c)} : c \in 1..MaxCodes}]_vars

\* Two device codes and two states are live, one device code authorized between
\* the read and the write of the other's authorization, and a code was minted.
C30_Witness ==
    /\ DeviceKey(1) \in DOMAIN redis
    /\ DeviceKey(2) \in DOMAIN redis
    /\ redis[DeviceKey(2)].val.status = "authorized"
    /\ redis[DeviceKey(1)].val.status = "pending"
    /\ authz["w1"].pc = "write"
    /\ authz["w1"].device_code = 1
    /\ AuthorizationRequestKey(2) \in DOMAIN secondary_storage
    /\ CodeKey(1) \in DOMAIN secondary_storage
----------------------------------------------------------------------------
\* Properties of whole login and link flows.

\* A callback outcome that redirects without an error.
CallbackSucceeds(r) == Redirects(r.response) /\ ~CarriesError(r.response)

\* C31: a successful callback redirects with link_code and stores an
\* oauth:link_request entry and no oauth:code entry exactly when the authorize
\* call that drew its state had response_type=link_code; otherwise it redirects
\* with code and stores an oauth:code entry and no oauth:link_request entry.
\* Every authorize that goes upstream asks the provider for response_type=code.
C31_ResponseTypeDecidesOutcome ==
    /\ \A request \in FlowAuthorizeRequests :
          \E a \in {authorize(request, secondary_storage, nstates + 1)} :
             (Redirects(a.response) /\ ~CarriesError(a.response))
             => /\ a.response.location.url = AuthorizationEndpoint
                /\ a.response.location.query_params.response_type = "code"
    /\ \A request \in CallbackRequests :
          request.state \in DOMAIN requested
          => \A upstream \in RepliesFor(callback_exchanges(request, secondary_storage)) :
                \E r \in {callback(request, upstream, secondary_storage, users,
                                    social_accounts, ncodes + 1, nsocial + 1, now)} :
                   CallbackSucceeds(r)
                   => IF requested[request.state].response_type = "link_code"
                      THEN /\ DOMAIN r.response.location.query_params = {"link_code"}
                           /\ r.response.location.query_params.link_code = ncodes + 1
                           /\ LinkRequestKey(ncodes + 1) \in DOMAIN r.storage
                           /\ CodeKey(ncodes + 1) \notin DOMAIN r.storage
                           /\ ~r.exchanged
                      ELSE /\ requested[request.state].response_type = "code"
                           /\ DOMAIN r.response.location.query_params = {"code"}
                           /\ r.response.location.query_params.code = ncodes + 1
                           /\ CodeKey(ncodes + 1) \in DOMAIN r.storage
                           /\ LinkRequestKey(ncodes + 1) \notin DOMAIN r.storage

\* One state was drawn for response_type=link_code and one for code; the
\* callback of the first has stored a link request, that of the second a grant.
C31_Witness ==
    /\ \E st \in DOMAIN requested : requested[st].response_type = "link_code"
    /\ \E c \in DOMAIN origin :
          /\ requested[origin[c]].response_type = "link_code"
          /\ LinkRequestKey(c) \in DOMAIN secondary_storage
    /\ \E c \in DOMAIN origin :
          /\ requested[origin[c]].response_type = "code"
          /\ CodeKey(c) \in DOMAIN secondary_storage
\* The record a callback outcome has minted under the code drawn for it: the
\* AuthorizationCodeGrant, or else the LinkCodeState.
MintedGrant(r, code) == storage_get(r.storage, CodeKey(code))
MintedRecord(r, code) ==
    IF MintedGrant(r, code) # NoData
    THEN MintedGrant(r, code)
    ELSE storage_get(r.storage, LinkRequestKey(code))

\* The record carries the redirect_uri and the challenge of the authorize request.
BoundTo(record, provider_data, request) ==
    /\ record.redirect_uri = provider_data.redirect_uri
    /\ record.code_challenge = provider_data.code_challenge
    /\ record.code_challenge_method = provider_data.code_challenge_method
    /\ record.redirect_uri = HttpUrlStr(request.redirect_uri)
    /\ record.code_challenge = request.code_challenge
    /\ record.code_challenge_method = request.code_challenge_method

\* C32: whatever a callback mints, an AuthorizationCodeGrant or a LinkCodeState,
\* has the redirect_uri, code_challenge and code_challenge_method stored under
\* the callback's state (those of the authorize request that drew the state),
\* and the callback redirects to that redirect_uri; the user_id of a grant is a
\* user who, in the accounts as the callback leaves them, owns a SocialAccount
\* of this provider with the upstream id.
C32_MintedBoundToRequest ==
    \A request \in CallbackRequests :
        request.state \in DOMAIN requested
        => \A upstream \in RepliesFor(callback_exchanges(request, secondary_storage)) :
              \E r \in {callback(request, upstream, secondary_storage, users,
                                  social_accounts, ncodes + 1, nsocial + 1, now)} :
                 r.minted
                 => \E record \in {MintedRecord(r, ncodes + 1)} :
                       /\ record # NoData
                       /\ BoundTo(record,
                                  secondary_storage[AuthorizationRequestKey(request.state)],
                                  requested[request.state])
                       /\ Redirects(r.response)
                       /\ r.response.location.url = record.redirect_uri
                       /\ "user_id" \in DOMAIN record
                             => /\ record.user_id \in DOMAIN r.users
                                /\ \E a \in r.social_accounts :
                                      /\ a.provider = ProviderId
                                      /\ a.provider_user_id = upstream.id
                                      /\ a.user_id = record.user_id

\* A grant minted for a user the callback created, and a link record, both
\* stored with the challenge of their authorize requests.
C32_Witness ==
    /\ \E c \in DOMAIN origin :
          /\ CodeKey(c) \in DOMAIN secondary_storage
          /\ secondary_storage[CodeKey(c)].user_id = "p1"
          /\ secondary_storage[CodeKey(c)].code_challenge
                = requested[origin[c]].code_challenge
          /\ \E a \in social_accounts : a.user_id = "p1" /\ a.provider_user_id = "p1"
    /\ \E c \in DOMAIN origin : LinkRequestKey(c) \in DOMAIN secondary_storage
----------------------------------------------------------------------------
\* Properties of the stored device records.

\* The fields of a record that authorize_device_code is not to touch.
FixedFields(data) ==
    <<data.device_code, data.client_id, data.created_at, data.expires_at,
      data.request_ip>>

\* C33: a stored device record has an access_token exactly when its status is
\* authorized; a record that is authorized is not pending in the next state;
\* and a record that authorize_device_code writes has the device_code,
\* client_id, created_at, expires_at and request_ip of the record it read and
\* of the record it replaces.
C33_RecordShape ==
    /\ [](\A d \in DeviceCodes :
             DeviceKey(d) \in DOMAIN redis
             => /\ redis[DeviceKey(d)].val.status \in {"pending", "authorized"}
                /\ redis[DeviceKey(d)].val.access_token # None
                      <=> redis[DeviceKey(d)].val.status = "authorized")
    /\ [][/\ \A d \in DeviceCodes :
                (/\ DeviceKey(d) \in DOMAIN redis
                 /\ DeviceKey(d) \in DOMAIN redis'
                 /\ redis[DeviceKey(d)].val.status = "authorized")
                => redis'[DeviceKey(d)].val.status = "authorized"
          /\ \A w \in Workers :
                AuthorizeReturns(w)
                => /\ FixedFields(redis'[DeviceKey(authz[w].device_code)].val)
                         = FixedFields(authz[w].data)
                   /\ DeviceKey(authz[w].device_code) \in DOMAIN redis
                         => FixedFields(redis'[DeviceKey(authz[w].device_code)].val)
                               = FixedFields(redis[DeviceKey(authz[w].device_code)].val)]_vars

\* A record created at one instant was authorized at a later one and still
\* has the fields it was created with.
C33_Witness ==
    \E d \in DeviceCodes :
        /\ DeviceKey(d) \in DOMAIN redis
        /\ redis[DeviceKey(d)].val.status = "authorized"
        /\ redis[DeviceKey(d)].val.access_token = "tok-2"
        /\ redis[DeviceKey(d)].val.request_ip # None
        /\ redis[DeviceKey(d)].val.expires_at < redis[DeviceKey(d)].ex
\* C34 (as stated): once the record of a device code that was created has
\* disappeared from Redis, no step brings auth:device:<device_code> back.
C34_ExpiredStaysGone ==
    [][\A d \in DeviceCodes :
          (d <= issued /\ DeviceKey(d) \notin DOMAIN redis)
          => DeviceKey(d) \notin DOMAIN redis']_vars

\* C35 (as stated): Redis never keeps auth:device:<device_code> beyond the
\* expires_at of the record stored under it.  A key set with ex is present at
\* every instant before its expiry instant, so the expiry instant is not later
\* than expires_at.
C35_LifetimeWithinExpiresAt ==
    \A d \in DeviceCodes :
        DeviceKey(d) \in DOMAIN redis
        => redis[DeviceKey(d)].ex <= redis[DeviceKey(d)].val.expires_at

====
